---- MODULE Spec2Model ----
(***************************************************************************)
(* Model of shogun's CStringFeatures<ST> (features/StringFeatures.cpp):     *)
(* the sequence store, its subset stack, the k-mer embedding and the        *)
(* windowing operations.  ST is an unsigned integer type of BitsST bits.    *)
(***************************************************************************)
EXTENDS Integers, Sequences, FiniteSets, TLC

\* ------------------------------------------------------------------ bounds
MaxLen == 4      \* longest input sequence
MaxIn == 2       \* most sequences in one set/append argument
MaxVec == 4      \* most sequences the store may hold
MaxDepth == 2    \* deepest subset stack
MaxHist == 6     \* largest total count of an Alphabet histogram
MaxOrder == 2    \* largest order passed to embed
MaxEdits == 2    \* most rewriting calls (embed, windowing, per-index replace) on the same content
MaxWide == 5     \* longest read and largest order of the wide embeddings
MaxFile == 4     \* longest file given to the ASCII loader, in bytes
MaxLines == 4    \* most lines of a file given to the FASTA loader
MaxReads == 3       \* reads of a FASTQ file
MaxChildren == 3    \* entries of a directory
MaxDim == 2         \* rows and columns of a kernel matrix
MaxLabels == 2      \* labels of a Labels object

\* ------------------------------------------------------- program constants
BitsST == 8            \* sizeof(ST)*8 for ST = uint8_t
TableSize == 256       \* entries of symbol_mask_table
MaxBuf == MaxVec + 2   \* buffers that can be alive at once

Pow2(n) == 2 ^ n
ModST == Pow2(BitsST)

Min(a, b) == IF a < b THEN a ELSE b
Max(a, b) == IF a > b THEN a ELSE b

\* ------------------------------------------------------- bit operations
\* x, y are naturals below 2^64; computed bit by bit as the CPU does
RECURSIVE BitAnd(_, _)
BitAnd(x, y) ==
    IF x = 0 \/ y = 0 THEN 0
    ELSE (IF x % 2 = 1 /\ y % 2 = 1 THEN 1 ELSE 0) + 2 * BitAnd(x \div 2, y \div 2)

RECURSIVE BitOr(_, _)
BitOr(x, y) ==
    IF x = 0 THEN y
    ELSE IF y = 0 THEN x
    ELSE (IF x % 2 = 1 \/ y % 2 = 1 THEN 1 ELSE 0) + 2 * BitOr(x \div 2, y \div 2)

Shl(x, n) == x * Pow2(n)
Shr(x, n) == x \div Pow2(n)
ToST(x) == x % ModST

\* ------------------------------------------------------------ Alphabet
\* The Alphabet collaborator (DNA kind): symbol <-> code tables, histogram.
chA == 65
chC == 67
chG == 71
chT == 84
chN == 78              \* a byte that is not a DNA symbol
MAPTABLE_UNDEF == 255

ValidChars(kind) == IF kind = "DNA" THEN {chA, chC, chG, chT} ELSE {}
get_num_bits(kind) == IF kind = "DNA" THEN 2 ELSE 8
get_num_symbols(kind) == IF kind = "DNA" THEN 4 ELSE 256

remap_to_bin(kind, byte) ==
    IF kind = "DNA"
    THEN CASE byte = chA -> 0
           [] byte = chC -> 1
           [] byte = chG -> 2
           [] byte = chT -> 3
           [] OTHER -> MAPTABLE_UNDEF
    ELSE byte

remap_to_char(kind, code) ==
    IF kind = "DNA"
    THEN CASE code = 0 -> chA
           [] code = 1 -> chC
           [] code = 2 -> chG
           [] code = 3 -> chT
           [] OTHER -> MAPTABLE_UNDEF
    ELSE code

EmptyHist == [c \in {} |-> 0]

\* histogram as a function from the bytes seen to their counts
HistAdd1(h, c) ==
    IF c \in DOMAIN h THEN [h EXCEPT ![c] = @ + 1]
    ELSE [d \in DOMAIN h \cup {c} |-> IF d = c THEN 1 ELSE h[d]]

RECURSIVE add_string_to_histogram(_, _)
add_string_to_histogram(h, s) ==
    IF s = <<>> THEN h
    ELSE add_string_to_histogram(HistAdd1(h, Head(s)), Tail(s))

RECURSIVE add_strings_to_histogram(_, _)
add_strings_to_histogram(h, list) ==
    IF list = <<>> THEN h
    ELSE add_strings_to_histogram(add_string_to_histogram(h, Head(list)), Tail(list))

RECURSIVE HistTotal(_)
HistTotal(h) ==
    IF DOMAIN h = {} THEN 0
    ELSE LET c == CHOOSE d \in DOMAIN h : TRUE
         IN h[c] + HistTotal([d \in DOMAIN h \ {c} |-> h[d]])

get_num_symbols_in_histogram(h) == Cardinality(DOMAIN h)

\* ceil(log2(number of distinct symbols)) <= bits per symbol
check_alphabet_size(a) == get_num_symbols_in_histogram(a.hist) <= Pow2(get_num_bits(a.kind))
check_alphabet(a) == DOMAIN a.hist \subseteq ValidChars(a.kind)

NewAlphabet(kind) == [kind |-> kind, hist |-> EmptyHist]

\* ------------------------------------------------------------ SGVector
\* A vector handle: buffer, offset into it, length, and whether the handle
\* is reference counted (own) or a bare view of someone else's memory.
NullVec == [buf |-> 0, off |-> 0, len |-> 0, own |-> FALSE]
IsNull(v) == v.buf = 0

VARIABLES
    heap,               \* buffer id -> [data, live]
    features,           \* std::vector<SGVector<ST>> features
    single_string,      \* SGVector<ST> single_string
    mask_max_val,       \* the max_val symbol_mask_table was computed for, -1 when unset
    alphas,             \* Alphabet instances: id -> [kind, hist]
    alphabet,           \* id of the instance the store holds
    m_subset_stack,     \* stack of index arrays, top last
    order,
    num_symbols,
    original_num_symbols,
    last,               \* the last operation: name, argument, outcome
    edits               \* rewriting calls since the content was last replaced as a whole

vars == <<heap, features, single_string, mask_max_val, alphas, alphabet,
          m_subset_stack, order, num_symbols, original_num_symbols, last,
          edits>>

storeVars == <<heap, features, single_string, mask_max_val, alphas, alphabet,
               m_subset_stack, order, num_symbols, original_num_symbols>>

\* the store as one record, so that operations can call one another
Cur ==
    [heap |-> heap, features |-> features, single_string |-> single_string,
     mask_max_val |-> mask_max_val, alphas |-> alphas,
     alphabet |-> alphabet, m_subset_stack |-> m_subset_stack, order |-> order,
     num_symbols |-> num_symbols, original_num_symbols |-> original_num_symbols]

\* ---------------------------------------------------------------- memory
SeqRange(q) == {q[i] : i \in DOMAIN q}

Handles(feats, ss) == SeqRange(feats) \cup {ss}

\* reference counting: a buffer without a counted handle is freed (its
\* content becomes indeterminate); a buffer nobody points to is forgotten
Collect(h, feats, ss) ==
    LET refs == {v.buf : v \in Handles(feats, ss)}
        owners == {v.buf : v \in {w \in Handles(feats, ss) : w.own}}
    IN [b \in DOMAIN h \cap refs |->
            IF b \in owners THEN h[b] ELSE [h[b] EXCEPT !.live = FALSE]]

FreshBuf(h) == CHOOSE b \in 1..MaxBuf : b \notin DOMAIN h /\ \A c \in 1..(b-1) : c \in DOMAIN h

HeapPut(h, b, data) ==
    [c \in DOMAIN h \cup {b} |-> IF c = b THEN [data |-> data, live |-> TRUE] ELSE h[c]]

\* one freshly allocated, counted vector per element of list
RECURSIVE AllocAll(_, _, _)
AllocAll(h, list, acc) ==
    IF list = <<>> THEN [heap |-> h, vecs |-> acc]
    ELSE LET b == FreshBuf(h)
             v == [buf |-> b, off |-> 0, len |-> Len(Head(list)), own |-> TRUE]
         IN AllocAll(HeapPut(h, b, Head(list)), Tail(list), Append(acc, v))

\* the elements a handle denotes; only meaningful while its buffer is alive
InBuffer(h, v) ==
    /\ ~IsNull(v)
    /\ v.buf \in DOMAIN h
    /\ h[v.buf].live
    /\ v.off >= 0
    /\ v.len >= 0
    /\ v.off + v.len <= Len(h[v.buf].data)

Indeterminate == <<-1>>   \* what a read outside live memory may yield

DataOf(h, v) ==
    IF IsNull(v) \/ v.len = 0 THEN <<>>
    ELSE IF ~InBuffer(h, v) THEN Indeterminate
    ELSE SubSeq(h[v.buf].data, v.off + 1, v.off + v.len)

Contents(s) == [i \in DOMAIN s.features |-> DataOf(s.heap, s.features[i])]

\* ---------------------------------------------------------- subset stack
has_subsets(s) == s.m_subset_stack # <<>>

get_size(s) ==
    IF has_subsets(s) THEN Len(s.m_subset_stack[Len(s.m_subset_stack)]) ELSE 0

\* composes the levels from the top of the stack down to the store
RECURSIVE ConvertFrom(_, _, _)
ConvertFrom(stack, level, idx) ==
    IF level = 0 THEN idx
    ELSE ConvertFrom(stack, level - 1, stack[level][idx + 1])

subset_idx_conversion(s, idx) == ConvertFrom(s.m_subset_stack, Len(s.m_subset_stack), idx)

\* variant: the two branches exchanged
get_num_vectors_swapped(s) ==
    IF has_subsets(s) THEN Len(s.features) ELSE get_size(s)

get_num_vectors(s) ==
    IF has_subsets(s) THEN get_size(s) ELSE Len(s.features)

remove_all_subsets(s) == [s EXCEPT !.m_subset_stack = <<>>]

\* ---------------------------------------------------------------- cleanup
FreshAlpha(used) == CHOOSE a \in 0..4 : a \notin used /\ \A c \in 0..(a-1) : c \in used

ExtAlpha == 0   \* the instance the store was constructed with, held by its creator too
OwnAlpha == 1   \* the instance only the store holds

\* SG_UNREF of every instance but the store's and the creator's
KeepAlphas(al, cur) == [a \in (DOMAIN al) \cap {ExtAlpha, cur} |-> al[a]]

\* variant: the histogram is emptied in the current Alphabet instance
cleanup_in_place(s0) ==
    LET s == remove_all_subsets(s0)
    IN [s EXCEPT !.single_string = NullVec,
                 !.features = <<>>,
                 !.heap = Collect(s.heap, <<>>, NullVec),
                 !.mask_max_val = -1,
                 !.alphas[s.alphabet].hist = EmptyHist]

cleanup(s0) ==
    LET s == remove_all_subsets(s0)
        a == FreshAlpha(DOMAIN s.alphas)
        al == [b \in DOMAIN s.alphas \cup {a} |->
                 IF b = a THEN NewAlphabet(s.alphas[s.alphabet].kind) ELSE s.alphas[b]]
    IN [s EXCEPT !.single_string = NullVec,
                 !.features = <<>>,
                 !.heap = Collect(s.heap, <<>>, NullVec),
                 !.mask_max_val = -1,
                 !.alphas = KeepAlphas(al, a),
                 !.alphabet = a]

\* ----------------------------------------------------------- set_features
\* isnull: string_list.data() of an empty list may be the null pointer
\* variant: the derived state survives the replacement
set_features_keeps_derived(s, list, isnull) ==
    IF has_subsets(s) THEN [s |-> s, res |-> "error"]
    ELSE IF isnull THEN [s |-> s, res |-> "false"]
    ELSE LET alpha == [kind |-> s.alphas[s.alphabet].kind,
                       hist |-> add_strings_to_histogram(EmptyHist, list)]
         IN IF check_alphabet_size(alpha) /\ check_alphabet(alpha)
            THEN LET a == FreshAlpha(DOMAIN s.alphas)
                     al == [b \in DOMAIN s.alphas \cup {a} |->
                              IF b = a THEN alpha ELSE s.alphas[b]]
                     m == AllocAll(s.heap, list, <<>>)
                 IN [s |-> [s EXCEPT !.alphas = KeepAlphas(al, a),
                                     !.alphabet = a,
                                     !.heap = Collect(m.heap, m.vecs, s.single_string),
                                     !.features = m.vecs],
                     res |-> "true"]
            ELSE [s |-> s, res |-> "false"]

set_features(s, list, isnull) ==
    IF has_subsets(s) THEN [s |-> s, res |-> "error"]
    ELSE IF isnull THEN [s |-> s, res |-> "false"]
    ELSE LET alpha == [kind |-> s.alphas[s.alphabet].kind,
                       hist |-> add_strings_to_histogram(EmptyHist, list)]
         IN IF check_alphabet_size(alpha) /\ check_alphabet(alpha)
            THEN LET c == cleanup(s)
                     a == FreshAlpha(DOMAIN s.alphas \cup DOMAIN c.alphas)
                     al == [b \in DOMAIN c.alphas \cup {a} |->
                              IF b = a THEN alpha ELSE c.alphas[b]]
                     m == AllocAll(c.heap, list, <<>>)
                 IN [s |-> [c EXCEPT !.alphas = KeepAlphas(al, a),
                                     !.alphabet = a,
                                     !.heap = m.heap,
                                     !.features = m.vecs],
                     res |-> "true"]
            ELSE [s |-> s, res |-> "false"]

\* -------------------------------------------------------- append_features
\* the copy loop of lines 865-871, bounded by get_num_vectors() as written
AppendLoop(s, old_num_vectors, newvecs) ==
    [i \in 1..get_num_vectors(s) |->
        IF i - 1 < old_num_vectors THEN s.features[i]
        ELSE newvecs[i - old_num_vectors]]

\* variant: the histogram is merged before the result of the checks is known
append_features_merges_first(s, list, isnull) ==
    IF has_subsets(s) THEN [s |-> s, res |-> "error"]
    ELSE IF s.features = <<>> THEN set_features(s, list, isnull)
    ELSE LET alpha == [kind |-> s.alphas[s.alphabet].kind,
                       hist |-> add_strings_to_histogram(EmptyHist, list)]
             al == [s.alphas EXCEPT ![s.alphabet].hist =
                        add_strings_to_histogram(@, list)]
         IN IF check_alphabet_size(alpha) /\ check_alphabet(alpha)
            THEN LET m == AllocAll(s.heap, list, <<>>)
                     nf == AppendLoop(s, get_num_vectors(s), m.vecs)
                 IN [s |-> [s EXCEPT !.alphas = al,
                                     !.features = nf,
                                     !.heap = Collect(m.heap, nf, s.single_string)],
                     res |-> "true"]
            ELSE [s |-> [s EXCEPT !.alphas = al], res |-> "false"]

append_features(s, list, isnull) ==
    IF has_subsets(s) THEN [s |-> s, res |-> "error"]
    ELSE IF s.features = <<>> THEN set_features(s, list, isnull)
    ELSE LET alpha == [kind |-> s.alphas[s.alphabet].kind,
                       hist |-> add_strings_to_histogram(EmptyHist, list)]
         IN IF check_alphabet_size(alpha) /\ check_alphabet(alpha)
            THEN LET al == [s.alphas EXCEPT ![s.alphabet].hist =
                                add_strings_to_histogram(@, list)]
                     m == AllocAll(s.heap, list, <<>>)
                     nf == AppendLoop(s, get_num_vectors(s), m.vecs)
                 IN [s |-> [s EXCEPT !.alphas = al,
                                     !.features = nf,
                                     !.heap = Collect(m.heap, nf, s.single_string)],
                     res |-> "true"]
            ELSE [s |-> s, res |-> "false"]

\* ----------------------------------------------------- set_feature_vector
\* set_feature_vector(SGVector<ST> vector, int32_t num), 0 <= num
set_feature_vector_clone(s, vector, num) ==
    IF has_subsets(s) THEN [s |-> s, res |-> "error"]
    ELSE IF num >= get_num_vectors(s) THEN [s |-> s, res |-> "error"]
    ELSE IF Len(vector) <= 0 THEN [s |-> s, res |-> "error"]
    ELSE LET nf0 == [s.features EXCEPT ![num + 1] = NullVec]
             h0 == Collect(s.heap, nf0, s.single_string)
             m == AllocAll(h0, <<vector>>, <<>>)
         IN [s |-> [s EXCEPT !.features = [nf0 EXCEPT ![num + 1] = m.vecs[1]],
                             !.heap = m.heap],
             res |-> "ok"]

\* set_feature_vector(int32_t num, ST* string, int32_t len), 0 <= num
set_feature_vector_raw(s, num, string) ==
    IF ~(num < get_num_vectors(s)) THEN [s |-> s, res |-> "error"]
    ELSE LET real_num == subset_idx_conversion(s, num)
             nf0 == [s.features EXCEPT ![real_num + 1] = NullVec]
             h0 == Collect(s.heap, nf0, s.single_string)
             m == AllocAll(h0, <<string>>, <<>>)
         IN [s |-> [s EXCEPT !.features = [nf0 EXCEPT ![real_num + 1] = m.vecs[1]],
                             !.heap = m.heap],
             res |-> "ok"]

\* ----------------------------------------------------- get_feature_vector
\* get_feature_vector(int32_t num, int32_t& len, bool& dofree) with
\* preprocess_on_get off.  A negative num passes the only bound check and
\* indexes outside the subset array or the feature list: undefined
\* behaviour, which either traps or reads whatever lies there.
\* variant: the index is used as the physical slot
get_feature_vector_physical(s, num) ==
    IF num >= get_num_vectors(s) THEN {[res |-> "error", slot |-> -1]}
    ELSE IF num < 0
    THEN {[res |-> "crash", slot |-> num], [res |-> "ok", slot |-> num]}
    ELSE {[res |-> "ok", slot |-> num]}

get_feature_vector(s, num) ==
    IF num >= get_num_vectors(s) THEN {[res |-> "error", slot |-> -1]}
    ELSE IF num < 0
    THEN {[res |-> "crash", slot |-> num], [res |-> "ok", slot |-> num]}
    ELSE {[res |-> "ok", slot |-> subset_idx_conversion(s, num)]}

\* ------------------------------------------------- subset stack operations
\* push: the index array must be as long as the current logical view
add_subset(s, subset) ==
    IF Len(subset) # get_num_vectors(s) THEN [s |-> s, res |-> "error"]
    ELSE [s |-> [s EXCEPT !.m_subset_stack = Append(@, subset)], res |-> "ok"]

remove_subset(s) ==
    IF ~has_subsets(s) THEN [s |-> s, res |-> "error"]
    ELSE [s |-> [s EXCEPT !.m_subset_stack = SubSeq(@, 1, Len(@) - 1)], res |-> "ok"]

\* ---------------------------------------------------------------- embedding
\* embed_word: value<<=nbits; value|=seq[i], in ST arithmetic
RECURSIVE embed_word_from(_, _, _, _)
embed_word_from(seq, i, nbits, value) ==
    IF i > Len(seq) THEN value
    ELSE embed_word_from(seq, i + 1, nbits, BitOr(ToST(Shl(value, nbits)), seq[i]))

embed_word(seq, nbits) == embed_word_from(seq, 1, nbits, 0)

\* unembed_word: seq[len-i-1]=remap_to_char(word & mask); word>>=nbits
RECURSIVE unembed_word_from(_, _, _, _, _)
unembed_word_from(kind, word, seq, len, i) ==
    IF i >= len THEN seq
    ELSE LET nbits == get_num_bits(kind)
             mask == Pow2(Min(nbits, BitsST)) - 1
             w == BitAnd(word, mask)
         IN unembed_word_from(kind, Shr(word, nbits),
                              [seq EXCEPT ![len - i] = remap_to_char(kind, w % 256)],
                              len, i + 1)

\* variant: the symbols are written in the order they are extracted
unembed_word_forward(kind, word, len) ==
    LET back == unembed_word_from(kind, word, [i \in 1..len |-> 0], len, 0)
    IN [i \in 1..len |-> back[len + 1 - i]]

unembed_word(kind, word, len) ==
    unembed_word_from(kind, word, [i \in 1..len |-> 0], len, 0)

\* ST mask=0; for (i<p_order*max_val) mask=(mask<<1)|1
OrderMask(p_order, max_val) == Pow2(Min(p_order * max_val, BitsST)) - 1

\* "convert the rest": the rolling update of one sequence, position by
\* position.  st.packed is the set of positions that hold a packed code,
\* st.stale records a symbol read from such a position.
RECURSIVE EmbedRest(_, _, _, _, _, _)
EmbedRest(kind, st, j, idx, max_val, mask) ==
    IF j >= Len(st.str) THEN st
    ELSE LET sym == ToST(remap_to_bin(kind, st.str[j + 1] % 256))
             s1 == [st.str EXCEPT ![j + 1] = sym]
             code == BitAnd(BitOr(Shl(s1[idx + 1], max_val), s1[j + 1]), mask)
             s2 == [s1 EXCEPT ![idx + 2] = ToST(code)]
         IN EmbedRest(kind,
                      [str |-> s2, packed |-> st.packed \cup {idx + 1},
                       stale |-> st.stale \/ j \in st.packed],
                      j + 1, idx + 1, max_val, mask)

\* the in-place conversion of one sequence of length >= p_order; pk is the
\* set of its positions that already hold a packed code when it is reached
EmbedString(kind, str, p_order, max_val, mask, pk) ==
    LET first == [j \in 1..Len(str) |->
                    IF j <= p_order THEN ToST(remap_to_bin(kind, str[j] % 256)) ELSE str[j]]
        word == [first EXCEPT ![1] = embed_word(SubSeq(first, 1, p_order), max_val)]
    IN EmbedRest(kind,
                 [str |-> word, packed |-> pk \cup {0},
                  stale |-> \E j \in 0..(p_order - 1) : j \in pk],
                 p_order, 0, max_val, mask)

\* writes the elements of str where the handle v points
WriteBack(h, v, str) ==
    [h EXCEPT ![v.buf].data =
        [k \in 1..Len(@) |-> IF k > v.off /\ k <= v.off + v.len THEN str[k - v.off] ELSE @[k]]]

\* a handle whose content is indeterminate (it was reached through memory
\* the store does not own)
Poisoned(len) == [buf |-> -1, off |-> 0, len |-> len, own |-> FALSE]

\* symbol_mask_table[i] |= mask<<(max_val*j) for every set bit j of i
RECURSIVE MaskEntry(_, _, _, _)
MaskEntry(bits, j, max_val, acc) ==
    IF j >= 8 THEN acc
    ELSE MaskEntry(bits \div 2, j + 1, max_val,
                   IF bits % 2 = 1 /\ max_val * j < BitsST
                   THEN BitOr(acc, ToST(Shl(Pow2(max_val) - 1, max_val * j)))
                   ELSE acc)

compute_symbol_mask_table(max_val) ==
    [i \in 1..TableSize |-> MaskEntry(i - 1, 0, max_val, 0)]

MaskTables == [max_val \in 0..BitsST |-> compute_symbol_mask_table(max_val)]

\* The table is written only by compute_symbol_mask_table and by the
\* assignments of an empty vector, so the state keeps the argument it was
\* computed for and the table itself is this function of it.
symbol_mask_table(s) == IF s.mask_max_val < 0 THEN <<>> ELSE MaskTables[s.mask_max_val]

\* the loop over the sequences, from sequence i on; yields every outcome.
\* pk is the set of <<buffer, position>> that hold a packed code so far and
\* stale tells whether a symbol was read from such a position.
RECURSIVE EmbedLoop(_, _, _, _, _, _, _)
EmbedLoop(s, i, p_order, max_val, mask, pk, stale) ==
    IF i > get_num_vectors(s)
    THEN {[s |-> [s EXCEPT !.mask_max_val = max_val], res |-> "ok", stale |-> stale]}
    ELSE LET v == s.features[i]
             len == v.len
             kind == s.alphas[s.alphabet].kind
         IN IF len < p_order THEN {[s |-> s, res |-> "error", stale |-> stale]}
            ELSE IF ~InBuffer(s.heap, v)
            THEN {[s |-> s, res |-> "crash", stale |-> stale]}
                 \cup EmbedLoop([s EXCEPT !.features[i] = Poisoned(len - p_order + 1)],
                                i + 1, p_order, max_val, mask, pk, stale)
            ELSE LET mine == {q \in 0..(len - 1) : <<v.buf, v.off + q>> \in pk}
                     e == EmbedString(kind, DataOf(s.heap, v), p_order, max_val, mask, mine)
                 IN EmbedLoop([s EXCEPT !.heap = WriteBack(s.heap, v, e.str),
                                        !.features[i].len = len - p_order + 1],
                              i + 1, p_order, max_val, mask,
                              pk \cup {<<v.buf, v.off + q>> : q \in e.packed},
                              stale \/ e.stale)

\* embed_features(p_order), 1 <= p_order; the overflow of the symbol space
\* is only warned about
embed_features(s, p_order) ==
    IF has_subsets(s) THEN {[s |-> s, res |-> "error", stale |-> FALSE]}
    ELSE IF ~(get_num_symbols_in_histogram(s.alphas[s.alphabet].hist) > 0)
    THEN {[s |-> s, res |-> "error", stale |-> FALSE]}
    ELSE LET kind == s.alphas[s.alphabet].kind
             max_val == get_num_bits(kind)
             s1 == [s EXCEPT !.order = p_order,
                             !.original_num_symbols = get_num_symbols(kind),
                             !.num_symbols = IF p_order > 1 THEN Pow2(max_val * p_order)
                                             ELSE get_num_symbols(kind)]
         IN EmbedLoop(s1, 1, p_order, max_val, OrderMask(p_order, max_val), {}, FALSE)

\* ---------------------------------------------------------------- windowing
\* C integer division truncates toward zero
CDiv(a, b) == IF a >= 0 THEN a \div b ELSE -((-a) \div b)

RECURSIVE MaxVlen(_, _, _)
MaxVlen(s, i, acc) ==
    IF i >= get_num_vectors(s) THEN acc
    ELSE MaxVlen(s, i + 1, Max(acc, s.features[subset_idx_conversion(s, i) + 1].len))

get_max_vector_length(s) == MaxVlen(s, 0, 0)

\* SGVector::slice(l, h): a view of elements l..h-1 that shares the memory
\* of v and is not reference counted
slice(v, l, h) == [buf |-> v.buf, off |-> v.off + l, len |-> h - l, own |-> FALSE]

WindowPreconditions(s, window_size) ==
    /\ window_size > 0
    /\ get_num_vectors(s) = 1 \/ ~IsNull(s.single_string)
    /\ \/ get_max_vector_length(s) >= window_size
       \/ ~IsNull(s.single_string) /\ s.single_string.len >= window_size

obtain_by_sliding_window(s, window_size, step_size, skip) ==
    IF has_subsets(s) THEN [s |-> s, res |-> "error", ret |-> -1]
    ELSE IF ~(step_size > 0 /\ WindowPreconditions(s, window_size))
    THEN [s |-> s, res |-> "error", ret |-> -1]
    ELSE LET num_vectors ==
                 IF ~IsNull(s.single_string)
                 THEN CDiv(s.single_string.len - window_size, step_size) + 1
                 ELSE CDiv(get_max_vector_length(s) - window_size, step_size) + 1
             f == [i \in 1..get_num_vectors(s) |->
                     LET offs == (i - 1) * step_size
                     IN slice(s.features[1], offs + skip,
                              Min(offs + window_size, s.features[1].len))]
             ss == s.features[1]
         IN [s |-> [s EXCEPT !.single_string = ss,
                             !.features = f,
                             !.heap = Collect(s.heap, f, ss)],
             res |-> "ok", ret |-> num_vectors]

\* variant: the windows start at the offset itself, skip is not applied
RECURSIVE PositionLoop_noskip(_, _, _, _, _, _, _)
PositionLoop_noskip(s, window_size, positions, skip, len, i, f) ==
    IF i > Len(positions)
    THEN [s |-> [s EXCEPT !.features = f,
                          !.heap = Collect(s.heap, f, s.single_string)],
          res |-> "ok", ret |-> Len(positions), at |-> -1]
    ELSE LET p == positions[i]
         IN IF p >= 0 /\ p <= len - window_size
            THEN LET w == slice(s.features[1], p,
                                Min(p + window_size, s.features[1].len))
                 IN PositionLoop_noskip(s, window_size, positions, skip, len, i + 1,
                                        Append(f, [w EXCEPT !.len = window_size - skip]))
            ELSE LET nf == [s.features EXCEPT ![1].len = len]
                 IN [s |-> [s EXCEPT !.features = nf,
                                     !.single_string = NullVec,
                                     !.heap = Collect(s.heap, nf, NullVec)],
                     res |-> "error", ret |-> -1, at |-> i - 1]

\* the loop over the positions, from position i on; f holds the windows so far
RECURSIVE PositionLoop(_, _, _, _, _, _, _)
PositionLoop(s, window_size, positions, skip, len, i, f) ==
    IF i > Len(positions)
    THEN [s |-> [s EXCEPT !.features = f,
                          !.heap = Collect(s.heap, f, s.single_string)],
          res |-> "ok", ret |-> Len(positions), at |-> -1]
    ELSE LET p == positions[i]
         IN IF p >= 0 /\ p <= len - window_size
            THEN LET w == slice(s.features[1], p + skip,
                                Min(p + window_size, s.features[1].len))
                 IN PositionLoop(s, window_size, positions, skip, len, i + 1,
                                 Append(f, [w EXCEPT !.len = window_size - skip]))
            ELSE LET nf == [s.features EXCEPT ![1].len = len]
                 IN [s |-> [s EXCEPT !.features = nf,
                                     !.single_string = NullVec,
                                     !.heap = Collect(s.heap, nf, NullVec)],
                     res |-> "error", ret |-> -1, at |-> i - 1]

obtain_by_position_list(s, window_size, positions, skip) ==
    IF has_subsets(s) THEN [s |-> s, res |-> "error", ret |-> -1, at |-> -1]
    ELSE IF ~WindowPreconditions(s, window_size)
    THEN [s |-> s, res |-> "error", ret |-> -1, at |-> -1]
    ELSE IF ~(Len(positions) > 0) THEN [s |-> s, res |-> "error", ret |-> -1, at |-> -1]
    ELSE LET had == ~IsNull(s.single_string)
             len == IF had THEN s.single_string.len ELSE get_max_vector_length(s)
             s1 == IF had THEN s ELSE [s EXCEPT !.single_string = s.features[1]]
         IN PositionLoop(s1, window_size, positions, skip, len, 1, <<>>)

\* ------------------------------------------------------------------ inputs
Word == <<chA, chC, chG, chT, chA, chC, chG, chT>>

LongRead == SubSeq(Word, 1, MaxLen)
ShortRead == <<chC>>
BadRead == <<chA, chN>>     \* holds a byte outside the alphabet

\* the argument lists of set/append: the first n of short, long, short, ...
\* reads, the long read alone, and two lists that fail the Alphabet's checks
Lists ==
    {[i \in 1..n |-> IF i % 2 = 1 THEN ShortRead ELSE LongRead] : n \in 0..MaxIn}
        \cup {<<LongRead>>, <<BadRead>>, <<ShortRead, BadRead>>}

\* the vectors offered to the per-index replace operations
Replacement == <<chT, chA>>

Identity(n) == [i \in 1..n |-> i - 1]

\* index arrays offered to add_subset: permutations of the view that generate
\* all of them, and arrays that are one too long or one too short
Reverse(n) == [i \in 1..n |-> n - i]
RotateLeft(n) == [i \in 1..n |-> i % n]

Subsets(n) ==
    {Reverse(n), RotateLeft(n), Identity(n + 1)}
        \cup (IF n > 0 THEN {Identity(n - 1)} ELSE {})

\* ----------------------------------------------------------------- actions
\* The store's own Alphabet instance is renamed OwnAlpha once the step is
\* over; whether the step replaced the instance is recorded in last.fresh.
RenameAlpha(al, cur) ==
    IF cur = ExtAlpha THEN [a \in {ExtAlpha} |-> al[ExtAlpha]]
    ELSE [a \in {ExtAlpha, OwnAlpha} |-> IF a = OwnAlpha THEN al[cur] ELSE al[ExtAlpha]]

\* the logical view: the physical slot of every valid index
View(s) == [i \in 1..get_num_vectors(s) |-> subset_idx_conversion(s, i - 1)]

\* what is recorded of the state an operation started from
PreInfo(op, res) ==
    IF op = "cleanup" \/ (op = "set_features" /\ res = "true")
    THEN <<has_subsets(Cur), ~IsNull(single_string), mask_max_val >= 0>>
    ELSE IF op = "add_subset" /\ res = "ok" THEN View(Cur)
    ELSE IF op = "append_features" /\ res = "true" THEN <<Len(features)>>
    ELSE IF op = "remove_subset" THEN <<last.op = "add_subset" /\ last.res = "ok">>
    ELSE IF op = "obtain_by_position_list" /\ res = "ok"
    THEN <<Len(features), ~IsNull(single_string)>>
    ELSE <<>>

Rewriters ==
    {"embed_features", "obtain_by_sliding_window", "obtain_by_position_list",
     "set_feature_vector_clone", "set_feature_vector_raw"}

Apply(r, op, arg) ==
    /\ heap' = r.s.heap
    /\ features' = r.s.features
    /\ single_string' = r.s.single_string
    /\ mask_max_val' = r.s.mask_max_val
    /\ alphas' = RenameAlpha(r.s.alphas, r.s.alphabet)
    /\ alphabet' = IF r.s.alphabet = ExtAlpha THEN ExtAlpha ELSE OwnAlpha
    /\ m_subset_stack' = r.s.m_subset_stack
    /\ order' = r.s.order
    /\ num_symbols' = r.s.num_symbols
    /\ original_num_symbols' = r.s.original_num_symbols
    /\ last' = [op |-> op, arg |-> arg, res |-> r.res,
                fresh |-> r.s.alphabet # alphabet,
                kept |-> \A a \in DOMAIN alphas \cap DOMAIN r.s.alphas :
                            r.s.alphas[a] = alphas[a],
                pre |-> PreInfo(op, r.res)]
    /\ edits' = IF r.s.features = <<>> \/ (r.res = "true" /\ op = "set_features") THEN 0
                ELSE IF op \in Rewriters /\ r.s # Cur THEN edits + 1
                ELSE edits

\* what is recorded of a set/append argument: the list when it was taken,
\* otherwise only whether it would have passed the Alphabet's checks
Validates(list) ==
    LET alpha == [kind |-> "DNA", hist |-> add_strings_to_histogram(EmptyHist, list)]
    IN check_alphabet_size(alpha) /\ check_alphabet(alpha)

ArgOf(r, list) ==
    IF r.res = "true" THEN list
    ELSE IF r.res = "false" THEN <<IF Validates(list) THEN "valid" ELSE "invalid">>
    ELSE <<>>

Init ==
    /\ heap = [b \in {} |-> 0]
    /\ features = <<>>
    /\ single_string = NullVec
    /\ mask_max_val = -1
    /\ alphas = [a \in {ExtAlpha} |-> NewAlphabet("DNA")]
    /\ alphabet = ExtAlpha
    /\ m_subset_stack = <<>>
    /\ order = 0
    /\ num_symbols = get_num_symbols("DNA")
    /\ original_num_symbols = get_num_symbols("DNA")
    /\ last = [op |-> "init", arg |-> <<>>, res |-> "ok", fresh |-> TRUE, kept |-> TRUE,
               pre |-> <<>>]
    /\ edits = 0

SetFeatures ==
    \E list \in Lists, isnull \in BOOLEAN :
        /\ isnull => list = <<>>
        /\ LET r == set_features(Cur, list, isnull)
           IN Apply(r, "set_features", ArgOf(r, list))

AppendFeatures ==
    \E list \in Lists, isnull \in BOOLEAN :
        /\ isnull => list = <<>>
        /\ Len(features) + Len(list) <= MaxVec
        /\ HistTotal(alphas[alphabet].hist) + HistTotal(add_strings_to_histogram(EmptyHist, list)) <= MaxHist
        /\ LET r == append_features(Cur, list, isnull)
           IN Apply(r, "append_features", ArgOf(r, list))

SetFeatureVectorClone ==
    /\ edits < MaxEdits
    /\ \E vector \in {Replacement, <<>>}, num \in 0..Len(features) :
        Apply(set_feature_vector_clone(Cur, vector, num), "set_feature_vector_clone", <<>>)

SetFeatureVectorRaw ==
    /\ edits < MaxEdits
    /\ \E string \in {Replacement}, num \in 0..Len(features) :
        Apply(set_feature_vector_raw(Cur, num, string), "set_feature_vector_raw", <<>>)

GetFeatureVector ==
    \E num \in (-1)..Len(features) :
        \E g \in get_feature_vector(Cur, num) :
            /\ last' = [op |-> "get_feature_vector", arg |-> num, res |-> g.res,
                        fresh |-> FALSE, kept |-> TRUE, pre |-> <<>>, slot |-> g.slot]
            /\ UNCHANGED <<storeVars, edits>>

Cleanup ==
    \E r \in {[s |-> cleanup(Cur), res |-> "ok"]} : Apply(r, "cleanup", <<>>)

AddSubset ==
    /\ Len(m_subset_stack) < MaxDepth
    /\ \E subset \in Subsets(get_num_vectors(Cur)) :
           Apply(add_subset(Cur, subset), "add_subset", <<>>)

EmbedFeatures ==
    /\ edits < MaxEdits
    /\ \E p_order \in 1..MaxOrder :
        \E r \in embed_features(Cur, p_order) :
            Apply(r, "embed_features", IF r.res = "ok" THEN <<p_order, r.stale>> ELSE <<>>)

\* window sizes: two that fit the long read and one that exceeds it
WindowSizes == {2, MaxLen + 1}
StepSizes == {1, 2}
Skips == {0, 1}
PositionLists == {<<0, 1>>, <<1, MaxLen>>, <<>>}

SlidingWindow ==
    /\ edits < MaxEdits
    /\ \E window_size \in WindowSizes, step_size \in StepSizes, skip \in Skips :
        LET r == obtain_by_sliding_window(Cur, window_size, step_size, skip)
        IN Apply(r, "obtain_by_sliding_window",
                 IF r.res = "ok" THEN <<window_size, step_size, skip, r.ret>> ELSE <<>>)

PositionList ==
    /\ edits < MaxEdits
    /\ \E window_size \in WindowSizes, positions \in PositionLists, skip \in Skips :
        LET r == obtain_by_position_list(Cur, window_size, positions, skip)
        IN Apply(r, "obtain_by_position_list",
                 IF r.res = "ok" THEN <<window_size, positions, skip, r.ret>>
                 ELSE IF r.at >= 0 THEN <<"offset">> ELSE <<>>)

RemoveSubset ==
    \E r \in {remove_subset(Cur)} : Apply(r, "remove_subset", <<>>)

RemoveAllSubsets ==
    \E r \in {[s |-> remove_all_subsets(Cur), res |-> "ok"]} :
        Apply(r, "remove_all_subsets", <<>>)

Next ==
    \/ SetFeatures
    \/ AppendFeatures
    \/ SetFeatureVectorClone
    \/ SetFeatureVectorRaw
    \/ GetFeatureVector
    \/ Cleanup
    \/ AddSubset
    \/ RemoveSubset
    \/ RemoveAllSubsets
    \/ EmbedFeatures
    \/ SlidingWindow
    \/ PositionList

Spec == Init /\ [][Next]_vars

\* ------------------------------------------------------- wide embeddings
\* the store filled with reads of up to MaxWide symbols and embedded with
\* orders up to MaxWide, whose symbol space exceeds the width of ST
WideRead(n) == [i \in 1..n |-> Word[((i - 1) % Len(Word)) + 1]]

WideLists ==
    {<<WideRead(n)>> : n \in 1..MaxWide}
        \cup {<<WideRead(MaxWide), WideRead(n)>> : n \in 1..MaxWide}

SetWide ==
    \E list \in WideLists :
        \E r \in {set_features(Cur, list, FALSE)} :
            Apply(r, "set_features", ArgOf(r, list))

EmbedWide ==
    /\ edits < MaxEdits
    /\ \E p_order \in 1..MaxWide :
        \E r \in embed_features(Cur, p_order) :
            Apply(r, "embed_features", IF r.res = "ok" THEN <<p_order, r.stale>> ELSE <<>>)

NextWide ==
    \/ SetWide
    \/ EmbedWide

SpecWide == Init /\ [][NextWide]_vars

\* ------------------------------------------------- embed_word/unembed_word
\* every sequence of alphabet codes of up to MaxLen symbols is packed and
\* then unpacked
CodeSeqs == UNION {[1..n -> 0..(get_num_symbols("DNA") - 1)] : n \in 1..MaxLen}

StoreInit ==
    /\ heap = [b \in {} |-> 0]
    /\ features = <<>>
    /\ single_string = NullVec
    /\ mask_max_val = -1
    /\ alphas = [a \in {ExtAlpha} |-> NewAlphabet("DNA")]
    /\ alphabet = ExtAlpha
    /\ m_subset_stack = <<>>
    /\ order = 0
    /\ num_symbols = get_num_symbols("DNA")
    /\ original_num_symbols = get_num_symbols("DNA")
    /\ edits = 0

WordInit ==
    /\ StoreInit
    /\ \E seq \in CodeSeqs : last = [op |-> "seq", seq |-> seq]

EmbedWord ==
    /\ last.op = "seq"
    /\ last' = [op |-> "embed_word", seq |-> last.seq,
                word |-> embed_word(last.seq, get_num_bits(alphas[alphabet].kind))]
    /\ UNCHANGED <<storeVars, edits>>

UnembedWord ==
    /\ last.op = "embed_word"
    /\ last' = [op |-> "unembed_word", seq |-> last.seq, word |-> last.word,
                out |-> unembed_word(alphas[alphabet].kind, last.word, Len(last.seq))]
    /\ UNCHANGED <<storeVars, edits>>

WordNext ==
    \/ EmbedWord
    \/ UnembedWord

SpecWord == WordInit /\ [][WordNext]_vars

\* ------------------------------------------------------- load_ascii_file
\* The loader runs as a process whose local variables are kept in last:
\* pc is "count" during the first pass, "read" during the second, "done"
\* after the return and "crashed" when a wild write trapped.
NL == 10    \* '\n'

FileBytes == {chA, chC, NL}
Files == UNION {[1..n -> FileBytes] : n \in 0..MaxFile}

\* the initial block size (1024*1024 in the source), scaled to the files
BlockSizes == 1..(MaxFile + 1)

AsciiInit ==
    /\ StoreInit
    /\ \E file \in Files, bs \in BlockSizes, remap \in BOOLEAN :
          last = [op |-> "load_ascii_file", pc |-> "call", file |-> file,
                  remap_to_bin |-> remap, blocksize |-> bs]

\* remove_all_subsets(); cleanup(); the two Alphabets; fopen, which may fail
AsciiOpen ==
    /\ last.op = "load_ascii_file" /\ last.pc = "call"
    /\ \E opened \in BOOLEAN :
        LET c == cleanup(remove_all_subsets(Cur))
            alpha == NewAlphabet("DNA")
        IN /\ heap' = c.heap
           /\ features' = c.features
           /\ single_string' = c.single_string
           /\ mask_max_val' = c.mask_max_val
           /\ m_subset_stack' = c.m_subset_stack
           /\ UNCHANGED <<order, original_num_symbols, edits>>
           /\ IF opened
              THEN /\ alphas' = RenameAlpha(c.alphas, c.alphabet)
                   /\ alphabet' = OwnAlpha
                   /\ UNCHANGED num_symbols
                   /\ last' = [op |-> "load_ascii_file", pc |-> "count",
                               file |-> last.file, remap_to_bin |-> last.remap_to_bin,
                               blocksize |-> Min(last.blocksize, Len(last.file)),
                               pos |-> 0, num_vectors |-> 0, required_blocksize |-> 0,
                               block_offs |-> 0, old_block_offs |-> 0,
                               lines |-> 0, recs |-> <<>>, overflow |-> <<>>,
                               alpha |-> EmptyHist, alpha_bin |-> EmptyHist, ub |-> FALSE]
              ELSE /\ alphas' = [a \in {ExtAlpha, OwnAlpha} |->
                                    IF a = ExtAlpha THEN alphas[ExtAlpha] ELSE alpha]
                   /\ alphabet' = OwnAlpha
                   /\ num_symbols' = get_num_symbols("DNA")
                   /\ last' = [op |-> "load_ascii_file", pc |-> "not opened",
                               file |-> last.file, remap_to_bin |-> last.remap_to_bin]

\* fread: the next sz <= blocksize bytes of the file from position pos
Fread(file, pos, blocksize) ==
    SubSeq(file, pos + 1, pos + Min(blocksize, Len(file) - pos))

\* first pass over one block, from byte i (1-based) on: counts the records
\* and the longest record
RECURSIVE CountFrom(_, _, _, _)
CountFrom(l, block, i, blocksize) ==
    IF i > Len(block) THEN l
    ELSE LET offs == l.block_offs + 1
             ends == block[i] = NL \/ (i = Len(block) /\ Len(block) < blocksize)
         IN CountFrom(IF ends
                      THEN [l EXCEPT !.block_offs = offs,
                                     !.num_vectors = @ + 1,
                                     !.required_blocksize = Max(@, offs - l.old_block_offs),
                                     !.old_block_offs = offs]
                      ELSE [l EXCEPT !.block_offs = offs],
                      block, i + 1, blocksize)

\* one turn of the first while loop; on leaving it the buffers are sized to
\* the longest record, the feature list to num_vectors, and the file rewound
AsciiCount ==
    /\ last.op = "load_ascii_file" /\ last.pc = "count"
    /\ LET block == Fread(last.file, last.pos, last.blocksize)
           l == CountFrom(last, block, 1, last.blocksize)
       IN IF Len(block) = last.blocksize
          THEN /\ last' = [l EXCEPT !.pos = @ + Len(block)]
               /\ UNCHANGED <<storeVars, edits>>
          ELSE /\ last' = [l EXCEPT !.pc = "read", !.pos = 0,
                                    !.blocksize = l.required_blocksize]
               /\ features' = [i \in 1..l.num_vectors |-> NullVec]
               /\ UNCHANGED <<heap, single_string, mask_max_val, alphas, alphabet,
                              m_subset_stack, order, num_symbols,
                              original_num_symbols, edits>>

\* ================================================================= claims
\* second pass over one block, from byte i (0-based) on; old_sz is where the
\* current record starts in the block.  The vector of a record is allocated
\* with the len bytes found in this block, the carried bytes are written in
\* front of them: with a carry the writes run past the allocation, and a
\* record beyond num_vectors is written past the feature list (l.ub).
RECURSIVE ReadFrom(_, _, _, _, _)
ReadFrom(l, block, i, old_sz, blocksize) ==
    IF i >= Len(block)
    THEN [l EXCEPT !.overflow = SubSeq(block, old_sz + 1, Len(block))]
    ELSE IF block[i + 1] = NL \/ (i = Len(block) - 1 /\ Len(block) < blocksize)
    THEN LET len == i - old_sz
             part == SubSeq(block, old_sz + 1, i)
             whole == l.overflow \o part
             written == IF l.remap_to_bin
                        THEN [j \in 1..Len(whole) |-> ToST(remap_to_bin("DNA", whole[j]))]
                        ELSE whole
             vector == SubSeq(written, 1, len)
             inrange == l.lines < l.num_vectors
             a1 == add_string_to_histogram(l.alpha, part)
         IN ReadFrom([l EXCEPT !.recs = IF inrange THEN Append(@, vector) ELSE @,
                               !.lines = @ + 1,
                               !.overflow = <<>>,
                               !.alpha = IF l.remap_to_bin \/ ~inrange THEN a1
                                         ELSE add_string_to_histogram(a1, vector),
                               !.alpha_bin = IF l.remap_to_bin /\ inrange
                                             THEN add_string_to_histogram(@, vector)
                                             ELSE @,
                               !.ub = @ \/ ~inrange \/ l.overflow # <<>>],
                     block, i + 1, i + 1, blocksize)
    ELSE ReadFrom(l, block, i + 1, old_sz, blocksize)

\* one turn of the second while loop; on leaving it the Alphabet that was
\* filled takes the place of the store's and the call returns
AsciiRead ==
    /\ last.op = "load_ascii_file" /\ last.pc = "read"
    /\ LET block == Fread(last.file, last.pos, last.blocksize)
           l == ReadFrom(last, block, 0, 0, last.blocksize)
           m == AllocAll([b \in {} |-> 0], l.recs, <<>>)
           leaves == Len(block) # last.blocksize
           kind == IF l.remap_to_bin THEN "RAWBYTE" ELSE "DNA"
       IN /\ heap' = m.heap
          /\ features' = [i \in 1..Max(l.num_vectors, Len(m.vecs)) |->
                            IF i <= Len(m.vecs) THEN m.vecs[i] ELSE NullVec]
          /\ \E trapped \in {FALSE, l.ub /\ ~last.ub} :
                last' = [l EXCEPT !.pos = @ + Len(block),
                                  !.pc = IF trapped THEN "crashed"
                                         ELSE IF leaves THEN "done" ELSE "read"]
          /\ IF leaves
             THEN /\ alphas' = [a \in {ExtAlpha, OwnAlpha} |->
                                   IF a = ExtAlpha THEN alphas[ExtAlpha]
                                   ELSE [kind |-> kind,
                                         hist |-> IF l.remap_to_bin THEN l.alpha_bin
                                                  ELSE l.alpha]]
                  /\ num_symbols' = get_num_symbols(kind)
             ELSE UNCHANGED <<alphas, num_symbols>>
          /\ UNCHANGED <<single_string, mask_max_val, alphabet, m_subset_stack,
                         order, original_num_symbols, edits>>

NextAscii ==
    \/ AsciiOpen
    \/ AsciiCount
    \/ AsciiRead

SpecAscii == AsciiInit /\ [][NextAscii]_vars

\* ------------------------------------------------------ memory-mapped file
\* CMemoryMappedFile::get_line(len, offs): the line that starts at offs,
\* without its newline, and the offset behind it; s = -1 is the null
\* pointer returned when no newline follows offs
RECURSIVE FindNL(_, _)
FindNL(file, i) ==
    IF i >= Len(file) THEN -1
    ELSE IF file[i + 1] = NL THEN i
    ELSE FindNL(file, i + 1)

get_line(file, offs) ==
    LET e == FindNL(file, offs)
    IN IF e < 0 THEN [s |-> -1, len |-> 0, offs |-> Len(file)]
       ELSE [s |-> offs, len |-> e - offs, offs |-> e + 1]

\* files made of newline-terminated lines
RECURSIVE Join(_)
Join(lines) ==
    IF lines = <<>> THEN <<>> ELSE Head(lines) \o <<NL>> \o Join(Tail(lines))

TextFiles(LineSet) ==
    {Join(ls) : ls \in UNION {[1..n -> LineSet] : n \in 0..MaxLines}}

\* -------------------------------------------------------- load_fasta_file
GT == 62    \* '>'

\* first scan: the lines that start with '>'
RECURSIVE CountHunks(_, _, _)
CountHunks(file, offs, num) ==
    LET l == get_line(file, offs)
    IN IF l.s < 0 THEN num
       ELSE CountHunks(file, l.offs,
                       IF l.len > 0 /\ file[l.s + 1] = GT THEN num + 1 ELSE num)

\* the bytes fasta[0..fasta_len-1] without the newlines, invalid ones
\* replaced by 'A' when ignore_invalid; at most len of them fit
RECURSIVE FastaCopy(_, _, _, _, _, _)
FastaCopy(file, fasta, fasta_len, j, ignore_invalid, str) ==
    IF j >= fasta_len THEN str
    ELSE LET b == file[fasta + j + 1]
         IN FastaCopy(file, fasta, fasta_len, j + 1, ignore_invalid,
                      IF b = NL THEN str
                      ELSE Append(str, IF ignore_invalid /\ b \notin ValidChars("DNA")
                                       THEN chA ELSE b))

\* the while(true) loop over the lines of one entry; l is the line in s
RECURSIVE FastaEntry(_, _, _, _, _, _)
FastaEntry(file, fasta, l, fasta_len, spanned_lines, ignore_invalid) ==
    IF l.s < 0 \/ l.len = 0 THEN [res |-> "error"]
    ELSE IF file[l.s + 1] = GT \/ l.offs = Len(file)
    THEN LET offs == l.offs - (l.len + 1)
             flen == IF offs = Len(file) THEN fasta_len + l.len ELSE fasta_len
             len == flen - spanned_lines
             str == FastaCopy(file, fasta, flen, 0, ignore_invalid, <<>>)
         IN IF Len(str) > len THEN [res |-> "error"]
            ELSE [res |-> "ok", offs |-> offs,
                  str |-> [j \in 1..len |-> IF j <= Len(str) THEN str[j] ELSE 0]]
    ELSE FastaEntry(file, fasta, get_line(file, l.offs), fasta_len + l.len + 1,
                    spanned_lines + 1, ignore_invalid)

\* the for loop over the num entries
RECURSIVE FastaEntries(_, _, _, _, _, _)
FastaEntries(file, i, num, offs, ignore_invalid, strings) ==
    IF i >= num THEN [res |-> "ok", strings |-> strings]
    ELSE LET id == get_line(file, offs)
             first == get_line(file, id.offs)
             e == FastaEntry(file, first.s, first, 0, 0, ignore_invalid)
         IN IF e.res = "error" THEN [res |-> "error", strings |-> strings]
            ELSE FastaEntries(file, i + 1, num, e.offs, ignore_invalid,
                              Append(strings, e.str))

\* cleanup(); alphabet=new CAlphabet(DNA); num_symbols
FreshDNA(s0) ==
    LET c == cleanup(s0)
        a == FreshAlpha(DOMAIN c.alphas)
        al == [b \in DOMAIN c.alphas \cup {a} |->
                 IF b = a THEN NewAlphabet("DNA") ELSE c.alphas[b]]
    IN [c EXCEPT !.alphas = KeepAlphas(al, a),
                 !.alphabet = a,
                 !.num_symbols = get_num_symbols("DNA")]

load_fasta_file(s, file, ignore_invalid) ==
    LET s0 == remove_all_subsets(s)
        num == CountHunks(file, 0, 0)
    IN IF num = 0 THEN [s |-> s0, res |-> "error"]
       ELSE LET c == FreshDNA(s0)
                r == FastaEntries(file, 0, num, 0, ignore_invalid, <<>>)
            IN IF r.res = "error" THEN [s |-> c, res |-> "error"]
               ELSE set_features(c, r.strings, FALSE)

FastaLines == {<<GT>>, <<GT, chA>>, <<chA>>, <<chC, chG>>, <<chN>>, <<>>}

FastaInit ==
    /\ StoreInit
    /\ \E file \in TextFiles(FastaLines), ignore_invalid \in BOOLEAN :
          last = [op |-> "call", file |-> file, ignore_invalid |-> ignore_invalid]

LoadFasta ==
    /\ last.op = "call"
    /\ \E r \in {load_fasta_file(Cur, last.file, last.ignore_invalid)} :
          Apply(r, "load_fasta_file", <<last.file, last.ignore_invalid>>)

NextFasta ==
    \/ LoadFasta

SpecFasta == FastaInit /\ [][NextFasta]_vars

\* -------------------------------------------------------- load_fastq_file
\* CMemoryMappedFile::get_num_lines: the newlines, and one more for a last
\* line without a newline
get_num_lines(file) ==
    Cardinality({i \in DOMAIN file : file[i] = NL})
        + (IF file # <<>> /\ file[Len(file)] # NL THEN 1 ELSE 0)

\* variant: the bytes of the read are packed as they are
FastqWord_unmapped(file, s, p_order, kind) ==
    embed_word([j \in 1..p_order |-> ToST(file[s + j])], get_num_bits(kind))

\* str[j]=remap_to_bin(s[j]) for j<order; embed_word(str, order)
FastqWord(file, s, p_order, kind) ==
    embed_word([j \in 1..p_order |-> ToST(remap_to_bin(kind, file[s + j]))],
               get_num_bits(kind))

\* the copy of a read, invalid bytes replaced by 'A' when ignore_invalid
FastqCopy(file, s, len, ignore_invalid) ==
    [j \in 1..len |-> IF ignore_invalid /\ file[s + j] \notin ValidChars("DNA")
                      THEN chA ELSE file[s + j]]

\* the for loop over the num quartets of lines
RECURSIVE FastqLoop(_, _, _, _, _, _, _, _)
FastqLoop(file, i, num, offs, ignore_invalid, bitremap, p_order, strings) ==
    IF i >= num THEN [res |-> "ok", strings |-> strings]
    ELSE LET id == get_line(file, offs)
             rd == get_line(file, id.offs)
             qid == get_line(file, rd.offs)
             q == get_line(file, qid.offs)
         IN IF id.s < 0 \/ rd.s < 0 \/ rd.len = 0
            THEN [res |-> "error", strings |-> strings]
            ELSE IF bitremap /\ rd.len # p_order
            THEN [res |-> "error", strings |-> strings]
            ELSE IF qid.s < 0 \/ q.s < 0
            THEN [res |-> "error", strings |-> strings]
            ELSE FastqLoop(file, i + 1, num, q.offs, ignore_invalid, bitremap, p_order,
                           IF bitremap
                           THEN [strings EXCEPT ![1][i + 1] =
                                    FastqWord(file, rd.s, p_order, "DNA")]
                           ELSE Append(strings,
                                       FastqCopy(file, rd.s, rd.len, ignore_invalid)))

load_fastq_file(s, file, ignore_invalid, bitremap_in_single_string) ==
    LET s0 == remove_all_subsets(s)
        lines == get_num_lines(file)
        num == lines \div 4
    IN IF lines % 4 # 0 THEN [s |-> s0, res |-> "error"]
       ELSE LET c0 == [FreshDNA(s0) EXCEPT !.num_symbols = s0.num_symbols]
                first == get_line(file, get_line(file, 0).offs)
                c == IF bitremap_in_single_string
                     THEN [c0 EXCEPT !.order = first.len,
                                     !.original_num_symbols = get_num_symbols("DNA")]
                     ELSE c0
                r == FastqLoop(file, 0, num, 0, ignore_invalid,
                               bitremap_in_single_string, c.order,
                               IF bitremap_in_single_string
                               THEN <<[j \in 1..num |-> 0]>> ELSE <<>>)
            IN IF r.res = "error" THEN [s |-> c, res |-> "error"]
               ELSE LET m == AllocAll(c.heap, r.strings, <<>>)
                    IN [s |-> [c EXCEPT !.features = m.vecs,
                                        !.heap = Collect(m.heap, m.vecs, c.single_string)],
                        res |-> "true"]

\* reads of the input files: valid, invalid, empty, of one and of two symbols
FastqReads == {<<chA>>, <<chC, chG>>, <<chT, chA>>, <<chC, chN>>, <<>>}

\* "@" / read / "+" / "I" for every read
RECURSIVE Quartets(_)
Quartets(reads) ==
    IF reads = <<>> THEN <<>>
    ELSE <<<<64>>, Head(reads), <<43>>, <<73>>>> \o Quartets(Tail(reads))

\* files of whole quartets, and the same with one more line
FastqFiles ==
    {Join(Quartets(reads)) \o extra :
        reads \in UNION {[1..n -> FastqReads] : n \in 0..MaxReads},
        extra \in {<<>>, <<64, NL>>}}

FastqInit ==
    /\ StoreInit
    /\ \E file \in FastqFiles, ignore_invalid \in BOOLEAN, bitremap \in BOOLEAN :
          last = [op |-> "call", file |-> file, ignore_invalid |-> ignore_invalid,
                  bitremap_in_single_string |-> bitremap]

LoadFastq ==
    /\ last.op = "call"
    /\ \E r \in {load_fastq_file(Cur, last.file, last.ignore_invalid,
                                 last.bitremap_in_single_string)} :
          Apply(r, "load_fastq_file",
                <<last.file, last.ignore_invalid, last.bitremap_in_single_string>>)

NextFastq ==
    \/ LoadFastq

SpecFastq == FastqInit /\ [][NextFastq]_vars

\* ------------------------------------------- loads into a store in use
\* the FASTA and FASTQ loaders called on a store as the constructor or
\* set_features left it; one file is loaded per run
FromSetFeatures == last.op \in {"init", "set_features"}

Preload ==
    /\ last.op = "init"
    /\ SetFeatures

ReloadFasta ==
    FromSetFeatures /\ \E file \in TextFiles(FastaLines), ignore_invalid \in BOOLEAN :
        \E r \in {load_fasta_file(Cur, file, ignore_invalid)} :
            Apply(r, "load_fasta_file", <<file, ignore_invalid>>)

ReloadFastq ==
    FromSetFeatures /\ \E file \in FastqFiles, ignore_invalid \in BOOLEAN, bitremap \in BOOLEAN :
        \E r \in {load_fastq_file(Cur, file, ignore_invalid, bitremap)} :
            Apply(r, "load_fastq_file", <<file, ignore_invalid, bitremap>>)

NextReload ==
    \/ Preload
    \/ ReloadFasta
    \/ ReloadFastq

SpecReload == Init /\ [][NextReload]_vars

\* ---------------------------------------------------- load_from_directory
\* a child entry of the directory: a directory, or a file with its bytes that
\* can or cannot be opened and read
ChildFiles == {<<>>, <<chA>>, <<chN, chA>>}

Children ==
    {[dir |-> TRUE, opens |-> FALSE, reads |-> FALSE, bytes |-> <<>>]}
        \cup {[dir |-> FALSE, opens |-> TRUE, reads |-> TRUE, bytes |-> b] :
                 b \in ChildFiles}
        \cup {[dir |-> FALSE, opens |-> o, reads |-> FALSE, bytes |-> <<chA>>] :
                 o \in BOOLEAN}

\* what the bytes of a vector that was allocated and never written read as
JunkBytes == {chA, chN}
JunkOf(n) == [1..n -> JunkBytes]

\* the loop over the children; strings[num] is allocated with the size of the
\* file and is the source, not the destination, of the copy, so it keeps the
\* bytes it was allocated with (junk)
RECURSIVE DirectoryLoop(_, _, _, _)
DirectoryLoop(children, i, junk, strings) ==
    IF i > Len(children) THEN [res |-> "ok", strings |-> strings]
    ELSE LET v == children[i]
         IN IF v.dir \/ ~v.opens
            THEN DirectoryLoop(children, i + 1, junk, strings)
            ELSE IF ~v.reads THEN [res |-> "error", strings |-> strings]
            ELSE DirectoryLoop(children, i + 1, junk, Append(strings, junk[i]))

load_from_directory(s, isdir, listed, children, junk) ==
    LET s0 == remove_all_subsets(s)
    IN IF ~isdir \/ ~listed \/ children = <<>> THEN [s |-> s0, res |-> "error"]
       ELSE LET r == DirectoryLoop(children, 1, junk, <<>>)
            IN IF r.res = "error" THEN [s |-> s0, res |-> "error"]
               ELSE IF Len(r.strings) > 0 THEN set_features(s0, r.strings, FALSE)
               ELSE [s |-> s0, res |-> "false"]

Directories ==
    UNION {[1..n -> Children] : n \in 0..MaxChildren}

DirectoryInit ==
    /\ StoreInit
    /\ \E children \in Directories, isdir \in BOOLEAN, listed \in BOOLEAN :
          /\ ~isdir => children = <<>> /\ ~listed
          /\ ~listed => children = <<>>
          /\ last = [op |-> "call", isdir |-> isdir, listed |-> listed,
                     children |-> children]

LoadFromDirectory ==
    /\ last.op = "call"
    /\ \E junk \in [DOMAIN last.children -> UNION {JunkOf(n) : n \in 0..2}] :
          /\ \A i \in DOMAIN junk : Len(junk[i]) = Len(last.children[i].bytes)
          /\ \E r \in {load_from_directory(Cur, last.isdir, last.listed,
                                           last.children, junk)} :
                Apply(r, "load_from_directory", <<last.isdir, last.children>>)

NextDirectory ==
    \/ LoadFromDirectory

SpecDirectory == DirectoryInit /\ [][NextDirectory]_vars

\* ------------------------------------------------------ compressed format
\* fwrite/fread of an int32_t: four bytes, least significant first
LE32(n) ==
    LET u == IF n < 0 THEN (n + 2147483647) + 1 ELSE n
    IN <<u % 256, (u \div 256) % 256, (u \div 65536) % 256,
         ((u \div 16777216) % 128) + (IF n < 0 THEN 128 ELSE 0)>>

RdLE32(b) ==
    b[1] + 256 * b[2] + 65536 * b[3]
        + 16777216 * (IF b[4] >= 128 THEN b[4] - 256 ELSE b[4])

\* CCompressor: type 0 (UNCOMPRESSED) copies the data; the other type is a
\* lossless codec, here run lengths as (count, byte) pairs
Compressions == {0, 1}

RECURSIVE RunLengths(_, _)
RunLengths(data, acc) ==
    IF data = <<>> THEN acc
    ELSE IF acc # <<>> /\ acc[Len(acc)] = Head(data) /\ acc[Len(acc) - 1] < 255
    THEN RunLengths(Tail(data), [acc EXCEPT ![Len(acc) - 1] = @ + 1])
    ELSE RunLengths(Tail(data), acc \o <<1, Head(data)>>)

RECURSIVE Expand(_, _)
Expand(pairs, acc) ==
    IF Len(pairs) < 2 THEN acc
    ELSE Expand(SubSeq(pairs, 3, Len(pairs)),
                acc \o [j \in 1..pairs[1] |-> pairs[2]])

compress(type, data) == IF type = 0 THEN data ELSE RunLengths(data, <<>>)
decompress(type, data) == IF type = 0 THEN data ELSE Expand(data, <<>>)

\* EAlphabet ids of the kinds of the model
AlphabetId(kind) == IF kind = "DNA" THEN 0 ELSE 7
AlphabetOfId(a) == IF a = 0 THEN "DNA" ELSE "RAWBYTE"

\* the header "SGV0"
SGV0 == <<83, 71, 86, 48>>

\* the frames written by the loop of save_compressed
RECURSIVE SaveFrames(_, _, _, _)
SaveFrames(s, i, compression, file) ==
    IF i >= get_num_vectors(s) THEN file
    ELSE LET vec == DataOf(s.heap, s.features[subset_idx_conversion(s, i) + 1])
             compressed == compress(compression, vec)
         IN SaveFrames(s, i + 1, compression,
                       file \o LE32(Len(compressed)) \o LE32(Len(vec)) \o compressed)

save_compressed(s, opened, compression) ==
    IF has_subsets(s) THEN [res |-> "error", file |-> <<>>]
    ELSE IF ~opened THEN [res |-> "false", file |-> <<>>]
    ELSE [res |-> "true",
          file |-> SaveFrames(s, 0, compression,
                              SGV0 \o <<compression, AlphabetId(s.alphas[s.alphabet].kind)>>
                                  \o LE32(get_num_vectors(s))
                                  \o LE32(get_max_vector_length(s)))]

\* fread of n bytes at pos: the bytes, or fewer at the end of the file
Fget(file, pos, n) ==
    SubSeq(file, pos + 1, IF pos + n <= Len(file) THEN pos + n ELSE Len(file))

\* the loop over the frames of load_compressed; fill is what the bytes of a
\* vector that was allocated and not written read as
RECURSIVE LoadFrames(_, _, _, _, _, _, _, _)
LoadFrames(file, pos, i, num_vectors, decomp, type, fill, feats) ==
    IF i >= num_vectors THEN [res |-> "ok", feats |-> feats]
    ELSE LET lc == Fget(file, pos, 4)
             lu == Fget(file, pos + 4, 4)
         IN IF Len(lc) < 4 \/ Len(lu) < 4 THEN [res |-> "error", feats |-> feats]
            ELSE LET len_compressed == RdLE32(lc)
                     len_uncompressed == RdLE32(lu)
                     compressed == Fget(file, pos + 8, len_compressed)
                     short == Len(compressed) # len_compressed
                 IN IF decomp
                    THEN IF short
                         THEN [res |-> "error",
                               feats |-> Append(feats, [j \in 1..len_uncompressed |-> fill])]
                         ELSE IF Len(decompress(type, compressed)) # len_uncompressed
                         THEN [res |-> "error",
                               feats |-> Append(feats, [j \in 1..len_uncompressed |-> fill])]
                         ELSE LoadFrames(file, pos + 8 + len_compressed, i + 1, num_vectors,
                                         decomp, type, fill,
                                         Append(feats, decompress(type, compressed)))
                    ELSE LET rec == LE32(len_compressed) \o LE32(len_uncompressed)
                                        \o compressed
                                        \o [j \in 1..(len_compressed - Len(compressed)) |-> fill]
                         IN IF short THEN [res |-> "error", feats |-> Append(feats, rec)]
                            ELSE LoadFrames(file, pos + 8 + len_compressed, i + 1,
                                            num_vectors, decomp, type, fill,
                                            Append(feats, rec))

\* the store with the sequences read so far
WithFeatures(c, feats) ==
    LET m == AllocAll(c.heap, feats, <<>>)
    IN [c EXCEPT !.features = m.vecs,
                 !.heap = Collect(m.heap, m.vecs, c.single_string)]

load_compressed(s, file, opened, decomp, fill) ==
    LET s0 == remove_all_subsets(s)
    IN IF ~opened THEN [s |-> s0, res |-> "false"]
       ELSE LET c == cleanup(s0)
                a == FreshAlpha(DOMAIN c.alphas)
                al == [b \in DOMAIN c.alphas \cup {a} |->
                         IF b = a THEN NewAlphabet(AlphabetOfId(file[6])) ELSE c.alphas[b]]
                c1 == [c EXCEPT !.alphas = KeepAlphas(al, a), !.alphabet = a]
            IN IF \E k \in 1..4 : Len(file) < k \/ file[k] # SGV0[k]
               THEN [s |-> c, res |-> "error"]
               ELSE IF Len(file) < 6 THEN [s |-> c, res |-> "error"]
               ELSE IF Len(file) < 10 \/ RdLE32(Fget(file, 6, 4)) <= 0
               THEN [s |-> c1, res |-> "error"]
               ELSE IF Len(file) < 14 \/ RdLE32(Fget(file, 10, 4)) <= 0
               THEN [s |-> c1, res |-> "error"]
               ELSE LET r == LoadFrames(file, 14, 0, RdLE32(Fget(file, 6, 4)), decomp,
                                        file[5], fill, <<>>)
                    IN [s |-> WithFeatures(c1, r.feats),
                        res |-> IF r.res = "error" THEN "error" ELSE "false"]

\* save_compressed of the store as the constructor or set_features left it,
\* then load_compressed of the written file or of its first bytes
SaveCompressed ==
    /\ FromSetFeatures
    /\ \E opened \in BOOLEAN, compression \in Compressions :
          \E w \in {save_compressed(Cur, opened, compression)} :
             Apply([s |-> Cur, res |-> w.res], "save_compressed", <<compression, w.file>>)

LoadCompressed ==
    /\ last.op = "save_compressed"
    /\ last.res = "true"
    /\ \E opened \in BOOLEAN, decomp \in BOOLEAN, fill \in JunkBytes,
          n \in 0..Len(last.arg[2]) :
          \E r \in {load_compressed(Cur, SubSeq(last.arg[2], 1, n), opened, decomp, fill)} :
             Apply(r, "load_compressed",
                   <<opened, decomp, n = Len(last.arg[2]), last.arg[1]>>)

NextCodec ==
    \/ Preload
    \/ SaveCompressed
    \/ LoadCompressed

SpecCodec == Init /\ [][NextCodec]_vars

\* ------------------------------------------ get / release of a sequence
\* The operations that acquire a sequence with get_feature_vector(num, len,
\* dofree), one step per call. last holds the frame of the running operation:
\* held lists the (object, index) pairs acquired and not yet released.
SetStore(s, l) ==
    /\ heap' = s.heap
    /\ features' = s.features
    /\ single_string' = s.single_string
    /\ mask_max_val' = s.mask_max_val
    /\ alphas' = RenameAlpha(s.alphas, s.alphabet)
    /\ alphabet' = IF s.alphabet = ExtAlpha THEN ExtAlpha ELSE OwnAlpha
    /\ m_subset_stack' = s.m_subset_stack
    /\ order' = s.order
    /\ num_symbols' = s.num_symbols
    /\ original_num_symbols' = s.original_num_symbols
    /\ last' = l
    /\ edits' = edits

LeaseOps == {"get_vector_length", "apply_one", "obtain_from_char_features"}

\* the sequence sets of the char features given to obtain_from_char_features
CharLists == {<<>>, <<ShortRead>>, <<ShortRead, LongRead>>}

Running == last.op \in LeaseOps /\ last.pc # "returned"

\* removes one (obj, num) from held, as far as it is there
RECURSIVE Unhold(_, _)
Unhold(held, e) ==
    IF held = <<>> THEN <<>>
    ELSE IF Head(held) = e THEN Tail(held)
    ELSE <<Head(held)>> \o Unhold(Tail(held), e)

\* a client calls one of the operations; preprocess_on_get of the store and
\* of the char features, and whether the models of the estimate are assigned
LeaseCall ==
    /\ FromSetFeatures
    /\ \E op \in LeaseOps, num \in 0..Len(features), pre \in BOOLEAN, models \in BOOLEAN,
          sf \in CharLists, sf_pre \in BOOLEAN :
          /\ op = "obtain_from_char_features" => num = 0 /\ models
          /\ op # "obtain_from_char_features" => sf = <<>> /\ ~sf_pre
          /\ op # "apply_one" => models
          /\ SetStore(Cur, [op |-> op, pc |-> "start", num |-> num,
                            preprocess_on_get |-> pre, models |-> models, sf |-> sf,
                            sf_preprocess_on_get |-> sf_pre, i |-> 0, dofree |-> FALSE,
                            held |-> <<>>, res |-> "none"])

\* get_feature_vector(num, len, dofree) called by get_vector_length, apply_one
LeaseGet ==
    /\ Running
    /\ last.op \in {"get_vector_length", "apply_one"}
    /\ last.pc = "start"
    /\ IF last.num >= get_num_vectors(Cur)
       THEN SetStore(Cur, [last EXCEPT !.pc = "returned", !.res = "error"])
       ELSE SetStore(Cur, [last EXCEPT !.pc = "got",
                                       !.dofree = last.preprocess_on_get,
                                       !.held = Append(@, <<"this", last.num>>)])

\* free_feature_vector(vec, num, dofree), then the return
LeaseFree ==
    /\ Running
    /\ last.op \in {"get_vector_length", "apply_one"}
    /\ last.pc = "got"
    /\ last.models
    /\ SetStore(Cur, [last EXCEPT !.pc = "returned", !.res = "ok",
                                  !.held = Unhold(@, <<"this", last.num>>)])

\* apply_one: error("model(s) not assigned")
ApplyOneNoModel ==
    /\ Running
    /\ last.op = "apply_one"
    /\ last.pc = "got"
    /\ ~last.models
    /\ SetStore(Cur, [last EXCEPT !.pc = "returned", !.res = "error"])

\* obtain_from_char_features(sf, 0, 1, 0, rev) up to the first loop
ObtainStart ==
    /\ Running
    /\ last.op = "obtain_from_char_features"
    /\ last.pc = "start"
    /\ LET s0 == remove_all_subsets(Cur)
       IN IF get_num_symbols_in_histogram(add_strings_to_histogram(EmptyHist, last.sf)) = 0
          THEN SetStore(s0, [last EXCEPT !.pc = "returned", !.res = "error"])
          ELSE LET c == cleanup([s0 EXCEPT !.order = 1])
               IN IF Len(last.sf) = 0
                  THEN SetStore(c, [last EXCEPT !.pc = "returned", !.res = "error"])
                  ELSE SetStore(c, [last EXCEPT !.pc = "copy"])

\* one round of the first loop: sf->get_feature_vector(i, len, vfree),
\* ASSERT(!vfree), features.emplace_back(len) and the remapped symbols
ObtainCopy ==
    /\ Running
    /\ last.pc = "copy"
    /\ last.i < Len(last.sf)
    /\ LET l == [last EXCEPT !.held = Append(@, <<"sf", last.i>>)]
           c == last.sf[last.i + 1]
       IN IF last.sf_preprocess_on_get
          THEN SetStore(Cur, [l EXCEPT !.pc = "returned", !.res = "error"])
          ELSE SetStore(WithFeatures(Cur, Contents(Cur)
                                 \o <<[j \in DOMAIN c |-> ToST(remap_to_bin("DNA", c[j]))]>>),
                        [l EXCEPT !.i = @ + 1])

\* between the loops: original_num_symbols, num_symbols for order 1
ObtainSymbols ==
    /\ Running
    /\ last.pc = "copy"
    /\ last.i >= Len(last.sf)
    /\ SetStore([Cur EXCEPT !.original_num_symbols = get_num_symbols("DNA"),
                            !.num_symbols = get_num_symbols("DNA")],
                [last EXCEPT !.pc = "translate", !.i = 0])

\* one round of the second loop: get_feature_vector(line, len, vfree),
\* ASSERT(!vfree), translate_from_single_order for order 1, start 0, gap 0
ObtainTranslate ==
    /\ Running
    /\ last.pc = "translate"
    /\ last.i < Len(last.sf)
    /\ LET l == [last EXCEPT !.held = Append(@, <<"this", last.i>>)]
       IN IF last.preprocess_on_get
          THEN SetStore(Cur, [l EXCEPT !.pc = "returned", !.res = "error"])
          ELSE SetStore(Cur, [l EXCEPT !.i = @ + 1])

\* compute_symbol_mask_table(max_val); return true
ObtainReturn ==
    /\ Running
    /\ last.pc = "translate"
    /\ last.i >= Len(last.sf)
    /\ SetStore([Cur EXCEPT !.mask_max_val = get_num_bits("DNA")],
                [last EXCEPT !.pc = "returned", !.res = "true"])

NextLease ==
    \/ Preload
    \/ LeaseCall
    \/ LeaseGet
    \/ LeaseFree
    \/ ApplyOneNoModel
    \/ ObtainStart
    \/ ObtainCopy
    \/ ObtainSymbols
    \/ ObtainTranslate
    \/ ObtainReturn

SpecLease == Init /\ [][NextLease]_vars

\* ------------------------------------------------------------ copy_subset
\* CStringFeatures(list_copy, alphabet): init(), the Alphabet of the
\* original, num_symbols, set_features(list_copy)
Construct(al, a, list) ==
    set_features([heap |-> <<>>, features |-> <<>>, single_string |-> NullVec,
                  mask_max_val |-> -1, alphas |-> al, alphabet |-> a,
                  m_subset_stack |-> <<>>, order |-> 0,
                  num_symbols |-> get_num_symbols(al[a].kind),
                  original_num_symbols |-> get_num_symbols(al[a].kind)],
                 list, FALSE).s

\* the new store: copies of the chosen sequences, the order of the original
\* and compute_symbol_mask_table(alphabet->get_num_symbols())
copy_subset(s, indices) ==
    LET list_copy == [i \in DOMAIN indices |->
                        DataOf(s.heap,
                               s.features[subset_idx_conversion(s, indices[i]) + 1])]
        result == Construct(s.alphas, s.alphabet, list_copy)
    IN [result EXCEPT !.order = s.order,
                      !.mask_max_val = get_num_symbols(result.alphas[result.alphabet].kind)]

CopyIndices(n) == UNION {[1..k -> 0..(n - 1)] : k \in 0..MaxIn}

\* the run goes on with the store that copy_subset returns
CopySubset ==
    /\ last.op # "copy_subset"
    /\ \E indices \in CopyIndices(get_num_vectors(Cur)) :
          \E r \in {[s |-> copy_subset(Cur, indices), res |-> "ok"]} :
             Apply(r, "copy_subset", indices)

NextCopy ==
    \/ Preload
    \/ AddSubset
    \/ EmbedFeatures
    \/ CopySubset

SpecCopy == Init /\ [][NextCopy]_vars

\* ----------------------------------------------------------- CustomKernel
\* The kernel object is the record in last: the two subset stacks, the size
\* of kmatrix and the cached num_lhs, num_rhs of CKernel.
StackSize(stack) == Len(stack[Len(stack)])

\* CSubsetStack::add_subset on a view of n elements
StackPush(stack, n, subset) ==
    IF Len(subset) # (IF stack = <<>> THEN n ELSE StackSize(stack))
    THEN [stack |-> stack, res |-> "error"]
    ELSE [stack |-> Append(stack, subset), res |-> "ok"]

\* CSubsetStack::remove_subset
StackPop(stack) ==
    IF stack = <<>> THEN [stack |-> stack, res |-> "error"]
    ELSE [stack |-> SubSeq(stack, 1, Len(stack) - 1), res |-> "ok"]

row_subset_changed_post(k) ==
    [k EXCEPT !.num_lhs = IF k.row_stack # <<>> THEN StackSize(k.row_stack)
                          ELSE k.num_rows]

col_subset_changed_post(k) ==
    [k EXCEPT !.num_rhs = IF k.col_stack # <<>> THEN StackSize(k.col_stack)
                          ELSE k.num_cols]

\* a failed push or pop raises its error before the hook is reached
add_row_subset(k, subset) ==
    LET r == StackPush(k.row_stack, k.num_rows, subset)
    IN IF r.res = "error" THEN [k EXCEPT !.res = "error"]
       ELSE row_subset_changed_post([k EXCEPT !.row_stack = r.stack, !.res = "ok"])

remove_row_subset(k) ==
    LET r == StackPop(k.row_stack)
    IN IF r.res = "error" THEN [k EXCEPT !.res = "error"]
       ELSE row_subset_changed_post([k EXCEPT !.row_stack = r.stack, !.res = "ok"])

remove_all_row_subsets(k) ==
    row_subset_changed_post([k EXCEPT !.row_stack = <<>>, !.res = "ok"])

add_col_subset(k, subset) ==
    LET r == StackPush(k.col_stack, k.num_cols, subset)
    IN IF r.res = "error" THEN [k EXCEPT !.res = "error"]
       ELSE col_subset_changed_post([k EXCEPT !.col_stack = r.stack, !.res = "ok"])

remove_col_subset(k) ==
    LET r == StackPop(k.col_stack)
    IN IF r.res = "error" THEN [k EXCEPT !.res = "error"]
       ELSE col_subset_changed_post([k EXCEPT !.col_stack = r.stack, !.res = "ok"])

remove_all_col_subsets(k) ==
    col_subset_changed_post([k EXCEPT !.col_stack = <<>>, !.res = "ok"])

\* both stacks are emptied, each with its hook, and then kmatrix is replaced
\* by the empty matrix
cleanup_custom(k) ==
    [remove_all_col_subsets(remove_all_row_subsets(k)) EXCEPT
        !.num_rows = 0, !.num_cols = 0]

\* init(l, r) with two CIndexFeatures
init_index(k, l_idx, r_idx) ==
    LET k1 == add_row_subset(remove_all_row_subsets(remove_all_col_subsets(k)), l_idx)
    IN IF k1.res = "error" THEN k1 ELSE add_col_subset(k1, r_idx)

\* CCustomKernel(km): a matrix of 0..MaxDim rows and columns, and num_lhs,
\* num_rhs as dummy_init leaves them
KernelInit ==
    /\ StoreInit
    /\ \E rows \in 0..MaxDim, cols \in 0..MaxDim :
          last = [op |-> "CCustomKernel", res |-> "ok", row_stack |-> <<>>,
                  col_stack |-> <<>>, num_rows |-> rows, num_cols |-> cols,
                  num_lhs |-> rows, num_rhs |-> cols]

KernelStep(op, k) ==
    /\ last' = [k EXCEPT !.op = op]
    /\ UNCHANGED <<storeVars, edits>>

AddRowSubset ==
    /\ Len(last.row_stack) < MaxDepth
    /\ \E subset \in Subsets(last.num_lhs), in_place \in BOOLEAN :
          KernelStep(IF in_place THEN "add_row_subset_in_place" ELSE "add_row_subset",
                     add_row_subset(last, subset))

RemoveRowSubset ==
    \E k \in {remove_row_subset(last)} : KernelStep("remove_row_subset", k)

RemoveAllRowSubsets ==
    \E k \in {remove_all_row_subsets(last)} : KernelStep("remove_all_row_subsets", k)

AddColSubset ==
    /\ Len(last.col_stack) < MaxDepth
    /\ \E subset \in Subsets(last.num_rhs), in_place \in BOOLEAN :
          KernelStep(IF in_place THEN "add_col_subset_in_place" ELSE "add_col_subset",
                     add_col_subset(last, subset))

RemoveColSubset ==
    \E k \in {remove_col_subset(last)} : KernelStep("remove_col_subset", k)

RemoveAllColSubsets ==
    \E k \in {remove_all_col_subsets(last)} : KernelStep("remove_all_col_subsets", k)

CleanupCustom ==
    \E k \in {cleanup_custom(last)} : KernelStep("cleanup_custom", k)

KernelInitIndex ==
    \E l_idx \in Subsets(last.num_rows), r_idx \in Subsets(last.num_cols) :
        KernelStep("init", init_index(last, l_idx, r_idx))

NextKernel ==
    \/ AddRowSubset
    \/ RemoveRowSubset
    \/ RemoveAllRowSubsets
    \/ AddColSubset
    \/ RemoveColSubset
    \/ RemoveAllColSubsets
    \/ CleanupCustom
    \/ KernelInitIndex

SpecKernel == KernelInit /\ [][NextKernel]_vars

\* ------------------------------------------------------------------ Labels
\* A Labels object is kept in last: m_current_values (null is the vector
\* pointer being null), m_subset_stack, and num, the label count of the
\* concrete class.
LabelValues == {0, 1}

ValueVectors ==
    {[null |-> TRUE, v |-> <<>>]}
        \cup {[null |-> FALSE, v |-> v] :
                 v \in UNION {[1..n -> LabelValues] : n \in 0..(MaxLabels + 1)}}

\* CLabels::CLabels() with init(): no values, an empty subset stack
LabelsInit ==
    /\ StoreInit
    /\ \E num \in 0..MaxLabels :
          last = [op |-> "CLabels", res |-> "ok",
                  m_current_values |-> [null |-> TRUE, v |-> <<>>],
                  m_subset_stack |-> <<>>, num |-> num, arg |-> <<>>]

\* get_num_labels of the concrete class: the size of the active subset, or
\* the number of labels
get_num_labels(l) ==
    IF l.m_subset_stack # <<>> THEN StackSize(l.m_subset_stack) ELSE l.num

set_values(l, values) ==
    IF Len(l.m_current_values.v) # 0
          /\ Len(l.m_current_values.v) # get_num_labels(l)
    THEN [l EXCEPT !.res = "error"]
    ELSE [l EXCEPT !.m_current_values = values, !.res = "ok"]

\* set_value(value, idx): both require() calls, then the write at the
\* converted index; a write past the vector is res "wild"
set_value(l, value, idx) ==
    IF l.m_current_values.null THEN [l EXCEPT !.res = "error"]
    ELSE IF get_num_labels(l) = 0 THEN [l EXCEPT !.res = "error"]
    ELSE LET real_num == ConvertFrom(l.m_subset_stack, Len(l.m_subset_stack), idx)
         IN IF real_num < Len(l.m_current_values.v)
            THEN [l EXCEPT !.m_current_values.v[real_num + 1] = value, !.res = "ok"]
            ELSE [l EXCEPT !.res = "wild"]

CLabels_add_subset(l, subset) ==
    LET r == StackPush(l.m_subset_stack, l.num, subset)
    IN [l EXCEPT !.m_subset_stack = r.stack, !.res = r.res]

CLabels_remove_subset(l) ==
    LET r == StackPop(l.m_subset_stack)
    IN [l EXCEPT !.m_subset_stack = r.stack, !.res = r.res]

CLabels_remove_all_subsets(l) == [l EXCEPT !.m_subset_stack = <<>>, !.res = "ok"]

\* a call on the Labels object; nothing is called after a wild write
LabelsStep(op, arg, l) ==
    /\ last.res # "wild"
    /\ last' = [l EXCEPT !.op = op, !.arg = arg]
    /\ UNCHANGED <<storeVars, edits>>

SetValues ==
    \E values \in ValueVectors :
        \E l \in {set_values(last, values)} :
            LabelsStep("set_values", <<values>>, l)

SetValue ==
    \E value \in LabelValues, idx \in 0..(get_num_labels(last) - 1) :
        LabelsStep("set_value", <<value, idx>>, set_value(last, value, idx))

LabelsAddSubset ==
    /\ Len(last.m_subset_stack) < MaxDepth
    /\ \E subset \in Subsets(get_num_labels(last)), in_place \in BOOLEAN :
          LabelsStep(IF in_place THEN "add_subset_in_place" ELSE "add_subset",
                     <<subset>>, CLabels_add_subset(last, subset))

LabelsRemoveSubset ==
    \E l \in {CLabels_remove_subset(last)} : LabelsStep("remove_subset", <<>>, l)

LabelsRemoveAllSubsets ==
    \E l \in {CLabels_remove_all_subsets(last)} :
        LabelsStep("remove_all_subsets", <<>>, l)

NextLabels ==
    \/ SetValues
    \/ SetValue
    \/ LabelsAddSubset
    \/ LabelsRemoveSubset
    \/ LabelsRemoveAllSubsets

SpecLabels == LabelsInit /\ [][NextLabels]_vars

NowContents == Contents(Cur)
NumVectors == get_num_vectors(Cur)
HistOf(list) == add_strings_to_histogram(EmptyHist, list)
Did(op, res) == last.op = op /\ last.res = res

\* C1: append(sequences) that passes validation on a non-empty store with no
\* active subset holding m sequences returns success and leaves m+n
\* sequences: the m previous ones in order, then the n appended in order.
C1_AppendKeepsAndAdds ==
    [][(Did("append_features", "true")' /\ features # <<>>)
        => /\ NumVectors' = Len(features) + Len(last'.arg)
           /\ NowContents' = NowContents \o last'.arg]_vars

\* C2: set(sequences) that passes validation leaves exactly the given
\* sequences in the given order, single_string and the mask table cleared,
\* and a newly created Alphabet of the same kind whose histogram counts
\* exactly the new content.
C2_SetReplacesWholesale ==
    [][Did("set_features", "true")'
        => /\ NumVectors' = Len(last'.arg)
           /\ NowContents' = last'.arg
           /\ IsNull(single_string')
           /\ symbol_mask_table(Cur)' = <<>>
           /\ last'.fresh
           /\ alphas'[alphabet'].kind = alphas[alphabet].kind
           /\ alphas'[alphabet'].hist = HistOf(last'.arg)]_vars

\* a set that replaced two sequences-worth of content, a single_string and a mask table
C2_Witness ==
    /\ Did("set_features", "true")
    /\ Len(last.arg) = 2
    /\ last.pre[2]
    /\ last.pre[3]

Rewriting ==
    Rewriters \cup {"set_features", "append_features"}

C4_SubsetRejectsRewriting ==
    [][(m_subset_stack # <<>> /\ last'.op \in Rewriting)
        => /\ last'.res = "error"
           /\ heap' = heap
           /\ features' = features]_vars

\* C5: get(i) succeeds only for 0 <= i < num_vectors(); every other index,
\* a negative one included, is a hard failure and no slot is read.
C5_GetOutOfRangeFails ==
    (last.op = "get_feature_vector" /\ ~(0 <= last.arg /\ last.arg < NumVectors))
        => last.res = "error"

\* C6: num_vectors() is the size of the top-level subset view when a subset
\* is active, and the number of physically stored sequences otherwise.
C6_NumVectors ==
    NumVectors = IF m_subset_stack # <<>>
                 THEN Len(m_subset_stack[Len(m_subset_stack)])
                 ELSE Len(features)

\* a subset is active on a store that holds sequences
C6_Witness ==
    /\ m_subset_stack # <<>>
    /\ Len(features) >= 2
    /\ NumVectors = 2

\* C7: after cleanup() in any state, num_vectors() = 0, no subset is active,
\* single_string and the mask table are empty, the store holds a fresh
\* Alphabet of the same kind with an empty histogram, and the instance held
\* before is not modified.
C7_CleanupResets ==
    [][last'.op = "cleanup"
        => /\ NumVectors' = 0
           /\ features' = <<>>
           /\ m_subset_stack' = <<>>
           /\ IsNull(single_string')
           /\ symbol_mask_table(Cur)' = <<>>
           /\ last'.fresh
           /\ alphas'[alphabet'].kind = alphas[alphabet].kind
           /\ alphas'[alphabet'].hist = EmptyHist
           /\ last'.kept]_vars

\* a cleanup of a store that had a subset, a single_string and a mask table
C7_Witness ==
    /\ last.op = "cleanup"
    /\ last.pre = <<TRUE, TRUE, TRUE>>

\* C8: push(p) followed by pop() restores num_vectors() and, for every index
\* valid before the push, the same physical slot and the same sequence.
C8_PushPopRestores ==
    [][(Did("add_subset", "ok") /\ last'.op = "remove_subset")
        => /\ last'.res = "ok"
           /\ NumVectors' = Len(last.pre)
           /\ View(Cur)' = last.pre
           /\ \A i \in 1..Len(last.pre) :
                get_feature_vector(Cur, i - 1)' = {[res |-> "ok", slot |-> last.pre[i]]}
           /\ NowContents' = NowContents]_vars

\* a pop right after a push made on top of a level that reorders the view
C8_Witness ==
    /\ Did("remove_subset", "ok")
    /\ last.pre = <<TRUE>>
    /\ Len(m_subset_stack) = 1
    /\ Len(View(Cur)) >= 2
    /\ View(Cur)[1] # 0

\* C9: for order*bits_per_symbol within the code width, embed(order) rewrites
\* every sequence s of length L >= order into L-order+1 codes, code p packing
\* remap(s[p]), ..., remap(s[p+order-1]) with the first symbol in the highest
\* bits, and never reads a symbol from a position that already holds a
\* packed code.
RECURSIVE PackFrom(_, _, _, _, _)
PackFrom(kind, str, p, k, acc) ==
    IF k = 0 THEN acc
    ELSE PackFrom(kind, str, p + 1, k - 1,
                  acc * Pow2(get_num_bits(kind)) + remap_to_bin(kind, str[p]))

Packed(kind, str, p_order) ==
    [p \in 1..(Len(str) - p_order + 1) |-> PackFrom(kind, str, p, p_order, 0)]

\* every sequence of the store is readable and made of symbols of the alphabet
HoldsSymbols ==
    \A i \in DOMAIN features :
        /\ InBuffer(heap, features[i])
        /\ \A j \in DOMAIN NowContents[i] :
              NowContents[i][j] \in ValidChars(alphas[alphabet].kind)

C9_EmbedPacksInPlace ==
    [][(Did("embed_features", "ok")' /\ HoldsSymbols
          /\ last'.arg[1] * get_num_bits(alphas[alphabet].kind) <= BitsST)
        => /\ ~last'.arg[2]
           /\ Len(features') = Len(features)
           /\ \A i \in DOMAIN features :
                NowContents'[i] = Packed(alphas[alphabet].kind, NowContents[i], last'.arg[1])]_vars

\* C10: for len*bits_per_symbol within the code width,
\* unembed(embed_word(seq, len), len) writes at position i the displayable
\* character of seq[i].
C10_UnembedInvertsEmbed ==
    (last.op = "unembed_word" /\ Len(last.seq) * get_num_bits(alphas[alphabet].kind) <= BitsST)
        => /\ Len(last.out) = Len(last.seq)
           /\ \A i \in DOMAIN last.seq :
                last.out[i] = remap_to_char(alphas[alphabet].kind, last.seq[i])

\* a word of the full code width, with different symbols at its two ends, was unpacked
C10_Witness ==
    /\ last.op = "unembed_word"
    /\ Len(last.seq) * get_num_bits(alphas[alphabet].kind) = BitsST
    /\ last.seq[1] # last.seq[Len(last.seq)]
    /\ last.out[1] = remap_to_char(alphas[alphabet].kind, last.seq[1])

\* C12: embed(order) that fails because a sequence is shorter than order
\* leaves every sequence, the order, num_symbols and the mask table as they
\* were before the call.
C12_FailedEmbedChangesNothing ==
    [][(last'.op = "embed_features" /\ last'.res = "error"
          /\ ~has_subsets(Cur)
          /\ get_num_symbols_in_histogram(alphas[alphabet].hist) > 0)
        => /\ features' = features
           /\ heap' = heap
           /\ order' = order
           /\ num_symbols' = num_symbols
           /\ mask_max_val' = mask_max_val]_vars

\* C11: after an embedding operation has returned normally num_symbols is at
\* most 2^(bit width of ST); an order whose symbol space exceeds that bound
\* makes the operation fail.
C11_SymbolSpaceFits ==
    (last.op = "embed_features" /\ last.res = "ok") => num_symbols <= Pow2(BitsST)

\* the elements lo..hi-1 (0-based) of a sequence
Elements(str, lo, hi) == SubSeq(str, lo + 1, hi)

\* the store holds exactly one readable sequence and nothing was windowed yet
OneSequence ==
    /\ Len(features) = 1
    /\ m_subset_stack = <<>>
    /\ IsNull(single_string)
    /\ InBuffer(heap, features[1])

\* C13: slide(W, Stp, skip) on a store holding exactly one sequence of length
\* L >= W returns n = floor((L-W)/Stp)+1 and leaves exactly n sequences,
\* window i being the source elements i*Stp+skip .. i*Stp+W-1.
C13_SlideWindows ==
    [][(Did("obtain_by_sliding_window", "ok")' /\ OneSequence)
        => LET W == last'.arg[1]
               Stp == last'.arg[2]
               skip == last'.arg[3]
               src == NowContents[1]
               n == ((Len(src) - W) \div Stp) + 1
           IN /\ last'.arg[4] = n
              /\ Len(features') = n
              /\ \A i \in 0..(n - 1) :
                    i + 1 \in DOMAIN features'
                        => NowContents'[i + 1] = Elements(src, i * Stp + skip, i * Stp + W)]_vars

Windowings == {"obtain_by_sliding_window", "obtain_by_position_list"}

\* C14: across successful slide and byPositions calls single_string stays the
\* original whole sequence: the first call on a one-sequence store sets it to
\* that sequence, and every later call keeps it and takes its windows from it.
C14_SingleStringKept ==
    [][(last'.op \in Windowings /\ last'.res = "ok")
        => IF IsNull(single_string)
           THEN Len(features) = 1
                    => DataOf(heap', single_string') = NowContents[1]
           ELSE LET whole == DataOf(heap, single_string)
                    W == last'.arg[1]
                IN /\ DataOf(heap', single_string') = whole
                   /\ last'.op = "obtain_by_position_list"
                        => \A i \in DOMAIN features' :
                              NowContents'[i] =
                                  Elements(whole, last'.arg[2][i] + last'.arg[3],
                                           last'.arg[2][i] + W)]_vars

\* C15: byPositions that meets an offset outside 0..length-window_size fails
\* and leaves the store as before the call: the same sequences with the same
\* lengths and the same single_string, whether it was unset or already set.
C15_FailedPositionsChangeNothing ==
    [][(last'.op = "obtain_by_position_list" /\ last'.arg = <<"offset">>)
        => /\ last'.res = "error"
           /\ features' = features
           /\ single_string' = single_string
           /\ heap' = heap]_vars

RECURSIVE Split(_, _, _)
Split(file, cur, acc) ==
    IF file = <<>> THEN (IF cur = <<>> THEN acc ELSE Append(acc, cur))
    ELSE IF Head(file) = NL THEN Split(Tail(file), <<>>, Append(acc, cur))
    ELSE Split(Tail(file), Append(cur, Head(file)), acc)

Records(file) == Split(file, <<>>, <<>>)

\* the ASCII loader has returned and no write went outside an allocation
AsciiLoaded == last.op = "load_ascii_file" /\ last.pc = "done" /\ ~last.ub

\* C17: the ASCII loader leaves one sequence per newline-delimited record, in
\* file order, each with exactly the length and bytes of its record, for any
\* content and block size, also for records that span a block boundary.
C17_AsciiRecords ==
    AsciiLoaded
        => LET recs == Records(last.file)
           IN /\ Len(features) = Len(recs)
              /\ \A i \in DOMAIN recs :
                    i \in DOMAIN features =>
                        NowContents[i] =
                            IF last.remap_to_bin
                            THEN [j \in DOMAIN recs[i] |-> remap_to_bin("DNA", recs[i][j])]
                            ELSE recs[i]

\* C18: the pre-remap histogram of the ASCII loader counts, for each byte,
\* its occurrences in the content of the loaded records, newlines excluded,
\* with remapping on or off.
C18_AsciiHistogram ==
    AsciiLoaded => last.alpha = HistOf(Records(last.file))

\* the entries of a FASTA text given as its lines: for every header line the
\* concatenation of the lines up to the next header or the end
RECURSIVE FastaRecords(_, _)
FastaRecords(lines, acc) ==
    IF lines = <<>> THEN acc
    ELSE LET l == Head(lines)
         IN IF l # <<>> /\ l[1] = GT THEN FastaRecords(Tail(lines), Append(acc, <<>>))
            ELSE FastaRecords(Tail(lines), [acc EXCEPT ![Len(acc)] = @ \o l])

IsHeader(l) == l # <<>> /\ l[1] = GT

\* a header first, at least one sequence line behind every header, no empty
\* line, and only symbols of the alphabet in the sequence lines
WellFormedFasta(lines) ==
    /\ lines # <<>>
    /\ IsHeader(lines[1])
    /\ ~IsHeader(lines[Len(lines)])
    /\ \A i \in DOMAIN lines :
          /\ lines[i] # <<>>
          /\ IsHeader(lines[i]) /\ i < Len(lines) => ~IsHeader(lines[i + 1])
          /\ ~IsHeader(lines[i]) => SeqRange(lines[i]) \subseteq ValidChars("DNA")

\* C19: the FASTA loader yields one sequence per header line, in file order,
\* each the concatenation of the lines between its header and the next header
\* or the end of the file, newlines removed; also for the last record.
C19_FastaRecords ==
    (last.op = "load_fasta_file" /\ WellFormedFasta(Records(last.arg[1])))
        => /\ last.res = "true"
           /\ NowContents = FastaRecords(Records(last.arg[1]), <<>>)

\* the reads of a file of quartets: the second line of every four
ReadsOf(lines) == [i \in 1..(Len(lines) \div 4) |-> lines[4 * (i - 1) + 2]]

KmerCode(read) ==
    embed_word([j \in DOMAIN read |-> remap_to_bin("DNA", read[j])], get_num_bits("DNA"))

\* a bit-remap load of n >= 1 quartets whose first read has k >= 1 symbols
DidBitRemap ==
    /\ last.op = "load_fastq_file"
    /\ last.arg[3]
    /\ Len(Records(last.arg[1])) % 4 = 0
    /\ Len(Records(last.arg[1])) >= 4
    /\ ReadsOf(Records(last.arg[1]))[1] # <<>>

\* C20: FASTQ bit-remap mode on n reads that all have the same length k leaves
\* exactly one aggregate sequence of length n whose entry i is embed_word of
\* the remapped symbols of read i, with order k; a read whose length differs
\* from the first read's makes the load fail.
C20_BitRemapAggregate ==
    DidBitRemap =>
        LET reads == ReadsOf(Records(last.arg[1]))
        IN IF \A i \in DOMAIN reads : Len(reads[i]) = Len(reads[1])
           THEN /\ last.res = "true"
                /\ NowContents = <<[i \in DOMAIN reads |-> KmerCode(reads[i])]>>
                /\ order = Len(reads[1])
           ELSE last.res = "error"

C20_Witness ==
    /\ DidBitRemap
    /\ last.res = "true"
    /\ order = 2
    /\ Len(features) = 1
    /\ Len(NowContents[1]) >= 2
    /\ NowContents[1][1] # NowContents[1][2]

\* C21: a FASTA or FASTQ load that fails on invalid input leaves the
\* sequences, the order and the Alphabet of the store as they were before
\* the call.
C21_FailedLoadChangesNothing ==
    [][(last'.op \in {"load_fasta_file", "load_fastq_file"} /\ last'.res = "error")
        => /\ NowContents' = NowContents
           /\ order' = order
           /\ alphas'[alphabet'] = alphas[alphabet]]_vars

\* the bytes of the children that are regular files and can be opened and read
RECURSIVE Loadable(_)
Loadable(children) ==
    IF children = <<>> THEN <<>>
    ELSE LET v == Head(children)
         IN (IF ~v.dir /\ v.opens /\ v.reads THEN <<v.bytes>> ELSE <<>>)
                \o Loadable(Tail(children))

\* C22: given a path that is a directory, the directory loader reads every
\* child that is a regular file into one sequence of its raw bytes, skips
\* directories and files that fail to open or read without aborting, and
\* reports success exactly when at least one file was loaded.
C22_DirectoryLoad ==
    (last.op = "load_from_directory" /\ last.arg[1] /\ last.arg[2] # <<>>)
        => /\ last.res # "error"
           /\ last.res = "true" <=> Loadable(last.arg[2]) # <<>>
           /\ last.res = "true" => NowContents = Loadable(last.arg[2])

\* load_compressed of the whole file that save_compressed has just written
RoundTrip ==
    /\ last.op = "save_compressed"
    /\ last.res = "true"
    /\ last'.op = "load_compressed"
    /\ last'.arg[1]
    /\ last'.arg[3]

\* the record of lazy mode: compressed length, uncompressed length, payload
LazyRecord(type, seq) ==
    LE32(Len(compress(type, seq))) \o LE32(Len(seq)) \o compress(type, seq)

\* C23: for any sequence set S of a store without a subset, the empty set
\* included, decode(encode(S)) yields S: in eager mode the same sequences in
\* the same order, in lazy mode one record per sequence with the compressed
\* length, the uncompressed length and the compressed payload.
C23_RoundTrip ==
    [][RoundTrip
        => /\ last'.res # "error"
           /\ last'.arg[2] => NowContents' = NowContents
           /\ ~last'.arg[2] =>
                 NowContents' = [i \in DOMAIN NowContents |->
                                    LazyRecord(last.arg[1], NowContents[i])]]_vars

\* C29: load_compressed returns true exactly when the source was opened and
\* every header field and frame was read into the store; it returns false
\* only when the source cannot be opened, and then the stored sequences and
\* the Alphabet are unchanged.
C29_LoadCompressedResult ==
    [][(last.op = "save_compressed" /\ last'.op = "load_compressed")
        => /\ last'.res = "true"
                <=> (last'.arg[1] /\ last'.arg[3] /\ features # <<>>)
           /\ last'.res = "false"
                => /\ ~last'.arg[1]
                   /\ NowContents' = NowContents
                   /\ alphas'[alphabet'] = alphas[alphabet]]_vars

\* C24: every operation that acquires a sequence with get_feature_vector
\* (with the dofree flag) has called free_feature_vector for the same index
\* when it returns, on every path, error paths included, and also when
\* on-the-fly preprocessing is off.
C24_GetIsReleased ==
    (last.op \in LeaseOps /\ last.pc = "returned") => last.held = <<>>

\* the OR, over every set bit j of m, of the bits-wide all-ones mask shifted
\* left by j*bits, in ST
RECURSIVE MaskOf(_, _, _)
MaskOf(m, j, bits) ==
    IF j >= 8 THEN 0
    ELSE (IF (m \div Pow2(j)) % 2 = 1 /\ j * bits < BitsST
          THEN ((Pow2(bits) - 1) * Pow2(j * bits)) % ModST ELSE 0)
             + MaskOf(m, j + 1, bits)

\* C25: in every reachable state, also of a store produced by copy_subset, a
\* mask table that is present has for each byte m the OR over the set bits j
\* of m of the bits_per_symbol-wide all-ones mask shifted by
\* j*bits_per_symbol, for the bits_per_symbol of the current Alphabet.
C25_MaskTable ==
    mask_max_val >= 0 =>
        symbol_mask_table(Cur) =
            [i \in 1..TableSize |-> MaskOf(i - 1, 0, get_num_bits(alphas[alphabet].kind))]

SingleStringContents == DataOf(heap, single_string)

\* C26: each sequence is exclusively owned by its slot: in every reachable
\* state, also after slide or byPositions, a rewrite in place (embed, or a
\* per-index replace) changes no other sequence and not single_string; embed
\* makes of every sequence the packing of its own symbols, a replace leaves
\* all slots but one as they were.
C26_ExclusiveOwnership ==
    [][/\ (Did("embed_features", "ok")' /\ HoldsSymbols
             /\ last'.arg[1] * get_num_bits(alphas[alphabet].kind) <= BitsST)
          => /\ SingleStringContents' = SingleStringContents
             /\ \A i \in DOMAIN features :
                   NowContents'[i]
                       = Packed(alphas[alphabet].kind, NowContents[i], last'.arg[1])
       /\ (last'.op \in {"set_feature_vector_clone", "set_feature_vector_raw"}
             /\ last'.res = "ok")
          => /\ SingleStringContents' = SingleStringContents
             /\ \E k \in DOMAIN features :
                   \A j \in DOMAIN features \ {k} : NowContents'[j] = NowContents[j]]_vars

\* C27: every push or pop on a row or column stack of the kernel invokes the
\* post-hook: after any sequence of add, add in place, remove, remove all and
\* cleanup_custom calls num_lhs (num_rhs) is the size of the row (column)
\* stack when a subset is active there and the row (column) count of the
\* kernel matrix otherwise.
C27_CachedSizes ==
    /\ last.num_lhs = IF last.row_stack # <<>> THEN StackSize(last.row_stack)
                      ELSE last.num_rows
    /\ last.num_rhs = IF last.col_stack # <<>> THEN StackSize(last.col_stack)
                      ELSE last.num_cols

\* C28: in pass 2 of the ASCII loader, whose block size is the longest record
\* length (newline included) found by pass 1, every full block holds a record
\* terminator: the carry never exceeds the block size, a carry is consumed
\* by a record completed in the next block (never overwritten first), and
\* the record index never exceeds the record count of pass 1.
PassTwoBlock == Fread(last.file, last.pos, last.blocksize)

C28_PassTwoCarry ==
    [][(last.op = "load_ascii_file" /\ last.pc = "read")
          => /\ (Len(PassTwoBlock) = last.blocksize /\ last.blocksize > 0)
                   => \E i \in DOMAIN PassTwoBlock : PassTwoBlock[i] = NL
             /\ Len(last'.overflow) <= last.blocksize
             /\ last.overflow # <<>> => last'.lines > last.lines
             /\ last'.lines <= last.num_vectors]_vars

\* C30: set_values(values) is rejected with an error, the current values
\* unchanged, unless the new vector has zero length or as many elements as
\* there are labels; otherwise the new vector becomes the current values.
C30_SetValues ==
    [][last'.op = "set_values"
          => LET values == last'.arg[1]
                 fits == Len(values.v) = 0 \/ Len(values.v) = get_num_labels(last)
             IN IF fits
                THEN last'.res = "ok" /\ last'.m_current_values = values
                ELSE /\ last'.res = "error"
                     /\ last'.m_current_values = last.m_current_values]_vars

====
